---- MODULE Spec2Model ----
(***************************************************************************)
(* indicator-engine: the incremental compute coordinator                   *)
(* (Service::compute_for_ticker), its two triggers (the periodic sweep     *)
(* run_service_loop and the Redis listener run_listener), the shutdown     *)
(* flag, and the feature store and message bus they talk to.               *)
(***************************************************************************)
EXTENDS Integers, Sequences, FiniteSets, TLC

(***************************************************************************)
(* Bounds of the model.                                                    *)
(***************************************************************************)
\* Longest bar history a (ticker, timeframe) pair holds.
MaxBars == 4
\* Number of request messages the bus delivers to the listener running alone.
MaxMsgs == 2
\* Number of request messages the bus delivers while the sweep runs beside
\* the listener.
MaxMsgsBoth == 1
MaxWindow == 3
MaxPushes == 5
MaxValue == 4
MaxPrice == 3
\* service.cpp:15 sets WRITE_BATCH_SIZE to 5000 rows; the model scales the
\* batch down so that histories of MaxBars bars span several batches.
WRITE_BATCH_SIZE == 2
\* data_service_client.cpp:159 sets CHUNK_SIZE to the same 5000 rows.
CHUNK_SIZE == WRITE_BATCH_SIZE

(***************************************************************************)
(* Configuration and the ticker table.                                     *)
(***************************************************************************)
\* config_.indicators.timeframes (the model keeps two of the five defaults).
Timeframes == <<"1Min", "5Min">>
\* config_.service.feature_version
feature_version == "v2.0"
\* The tickers table: rows with is_active = true, ordered by symbol.
TickerTable == <<[id |-> 1, symbol |-> "AAPL"]>>
\* A symbol the tickers table does not hold.
UnknownSymbol == "ZZZZ"

TickerIds == {TickerTable[i].id : i \in 1..Len(TickerTable)}
TfSet == {Timeframes[i] : i \in 1..Len(Timeframes)}
Pairs == TickerIds \X TfSet
TfIndex(tf) == CHOOSE i \in 1..Len(Timeframes) : Timeframes[i] = tf

Min(a, b) == IF a < b THEN a ELSE b

(***************************************************************************)
(* Feature values.  A double is kept symbolically as a triple              *)
(* <<tag, a, b>>: a number, NaN, or an expression over the bar fields      *)
(* (a logarithm or a quotient) that integer arithmetic cannot evaluate.    *)
(***************************************************************************)
NaN == <<"nan", 0, 0>>
Inf == <<"inf", 1, 0>>
NegInf == <<"inf", -1, 0>>
Num(x) == <<"num", x, 0>>
is_valid(v) == v[1] # "nan" /\ v[1] # "inf"
log_return(current, lagged) ==
    IF lagged <= 0 \/ current <= 0 THEN NaN ELSE <<"ln", current, lagged>>

EmptyFeatures == [k \in {} |-> NaN]

(***************************************************************************)
(* Rolling primitives (base.h).  The values pushed are NaN and small       *)
(* integers, on which double addition, subtraction and multiplication are  *)
(* exact; a quotient that is not an integer is kept as a reduced fraction  *)
(* <<"quot", p, q>>.                                                       *)
(***************************************************************************)
DAdd(a, b) == IF is_valid(a) /\ is_valid(b) THEN Num(a[2] + b[2]) ELSE NaN
DSub(a, b) == IF is_valid(a) /\ is_valid(b) THEN Num(a[2] - b[2]) ELSE NaN
DMul(a, b) == IF is_valid(a) /\ is_valid(b) THEN Num(a[2] * b[2]) ELSE NaN

RECURSIVE GCD(_, _)
GCD(a, b) == IF b = 0 THEN a ELSE GCD(b, a % b)

\* p / q for integers p and q > 0
DQuot(p, q) ==
    LET g == GCD(IF p < 0 THEN -p ELSE p, q)
    IN IF q \div g = 1 THEN Num(p \div g) ELSE <<"quot", p \div g, q \div g>>

\* the double a divided by the count n > 0
DDiv(a, n) == IF is_valid(a) THEN DQuot(a[2], n) ELSE NaN

\* Numerator and denominator of a number kept as Num(p) or <<"quot", p, q>>
Numer(v) == v[2]
Denom(v) == IF v[1] = "quot" THEN v[3] ELSE 1

\* EmaState::init: alpha = 2.0 / (span + 1.0)
EmaState_init(span) ==
    [value |-> NaN, alpha |-> DQuot(2, span + 1), initialized |-> FALSE]

\* An update that weighs the previous value with alpha and the input with
\* 1 - alpha.
EmaState_update_swapped(e, x) ==
    IF ~is_valid(x) THEN e
    ELSE IF ~e.initialized THEN [e EXCEPT !.value = x, !.initialized = TRUE]
    ELSE [e EXCEPT !.value =
            DQuot((Denom(e.alpha) - Numer(e.alpha)) * Numer(x) * Denom(e.value)
                     + Numer(e.alpha) * Numer(e.value) * Denom(x),
                  Denom(e.alpha) * Denom(e.value) * Denom(x))]
\* EmaState::update: the state after the call; the call returns its value
EmaState_update(e, x) ==
    IF ~is_valid(x) THEN e
    ELSE IF ~e.initialized THEN [e EXCEPT !.value = x, !.initialized = TRUE]
    ELSE [e EXCEPT !.value =
            DQuot(Numer(e.alpha) * Numer(x) * Denom(e.value)
                     + (Denom(e.alpha) - Numer(e.alpha)) * Numer(e.value) * Denom(x),
                  Denom(e.alpha) * Denom(e.value) * Denom(x))]

\* RollingStats::init
RollingStats_init(w) ==
    [buf |-> [i \in 1..w |-> Num(0)], window |-> w, pos |-> 0, count |-> 0,
     sum |-> Num(0), sq_sum |-> Num(0)]

\* RollingStats::push
RollingStats_push(s, x) ==
    LET evict == s.count >= s.window
        old   == s.buf[s.pos + 1]
        sum1  == IF evict THEN DSub(s.sum, old) ELSE s.sum
        sq1   == IF evict THEN DSub(s.sq_sum, DMul(old, old)) ELSE s.sq_sum
    IN [s EXCEPT !.count  = IF evict THEN @ ELSE @ + 1,
                 !.buf[s.pos + 1] = x,
                 !.sum    = DAdd(sum1, x),
                 !.sq_sum = DAdd(sq1, DMul(x, x)),
                 !.pos    = (s.pos + 1) % s.window]

RollingStats_full(s) == s.count >= s.window
RollingStats_mean(s) == IF s.count = 0 THEN NaN ELSE DDiv(s.sum, s.count)

\* RollingStats::variance: (sq_sum / count) - m * m, here as the one quotient
\* (count * sq_sum - sum * sum) / count^2
RollingStats_variance(s) ==
    IF s.count < 2 THEN NaN
    ELSE IF ~is_valid(s.sum) \/ ~is_valid(s.sq_sum) THEN NaN
    ELSE DQuot(s.count * s.sq_sum[2] - s.sum[2] * s.sum[2], s.count * s.count)

\* RollingStats::std_dev: (v >= 0.0) ? std::sqrt(v) : NaN.  The root of the
\* quotient v is kept as <<"sqrt", numerator, denominator>>.
RollingStats_std_dev(s) ==
    LET v == RollingStats_variance(s)
    IN IF is_valid(v) /\ v[2] >= 0
       THEN <<"sqrt", v[2], IF v[1] = "quot" THEN v[3] ELSE 1>>
       ELSE NaN

\* RollingStats::zscore: safe_divide(x - m, sd) = (x - m) / (sd + EPS), kept
\* as its operands when they are all numbers.
RollingStats_zscore(s, x) ==
    IF ~RollingStats_full(s) THEN NaN
    ELSE LET sd == RollingStats_std_dev(s)
             m  == RollingStats_mean(s)
         IN IF is_valid(x) /\ is_valid(m) /\ is_valid(sd)
            THEN <<"zscore", x[2], m[2], m[3], sd[2], sd[3]>>
            ELSE NaN

\* RollingSum::init
RollingSum_init(w) ==
    [buf |-> [i \in 1..w |-> Num(0)], window |-> w, pos |-> 0, count |-> 0,
     total |-> Num(0)]

\* RollingSum::push
RollingSum_push(s, x) ==
    LET evict  == s.count >= s.window
        total1 == IF evict THEN DSub(s.total, s.buf[s.pos + 1]) ELSE s.total
    IN [s EXCEPT !.count = IF evict THEN @ ELSE @ + 1,
                 !.buf[s.pos + 1] = x,
                 !.total = DAdd(total1, x),
                 !.pos   = (s.pos + 1) % s.window]

RollingSum_full(s) == s.count >= s.window
RollingSum_sum(s)  == s.total
RollingSum_mean(s) == IF s.count > 0 THEN DDiv(s.total, s.count) ELSE NaN

\* RollingSlope::init
RollingSlope_init(w) ==
    [buf |-> [i \in 1..w |-> Num(0)], window |-> w, pos |-> 0, count |-> 0]

\* RollingSlope::push
RollingSlope_push(s, x) ==
    [s EXCEPT !.count = IF s.count < s.window THEN @ + 1 ELSE @,
              !.buf[s.pos + 1] = x,
              !.pos = (s.pos + 1) % s.window]

RollingSlope_full(s) == s.count >= s.window

\* An index that reads the buffer from its start, wherever the oldest value is.
RollingSlope_idx_unrotated(s, i) == i
\* int idx = (pos + i) % window;  the i-th oldest value of a full buffer
RollingSlope_idx(s, i) == (s.pos + i) % s.window

RECURSIVE Sigma(_, _)
\* f[0] + ... + f[n - 1]
Sigma(f, n) == IF n = 0 THEN 0 ELSE Sigma(f, n - 1) + f[n - 1]

\* RollingSlope::slope.  With dx2 = 2 * dx and dyn = n * (y - y_mean) the
\* code's num is (sum of dx2 * dyn) / (2n) and its den is (sum of dx2^2) / 4;
\* den is a multiple of 1/4, so den > EPS exactly when it is not zero.
RollingSlope_slope(s) ==
    IF ~RollingSlope_full(s) THEN NaN
    ELSE LET n    == s.window
             y    == [i \in 0..(n - 1) |-> s.buf[RollingSlope_idx(s, i) + 1]]
             dx2  == [i \in 0..(n - 1) |-> 2 * i - (n - 1)]
             den4 == Sigma([i \in 0..(n - 1) |-> dx2[i] * dx2[i]], n)
         IN IF den4 = 0 THEN Num(0)
            ELSE IF \E i \in 0..(n - 1) : ~is_valid(y[i]) THEN NaN
            ELSE LET S     == Sigma([i \in 0..(n - 1) |-> y[i][2]], n)
                     num2n == Sigma([i \in 0..(n - 1) |-> dx2[i] * (n * y[i][2] - S)], n)
                 IN DQuot(2 * num2n, n * den4)

(***************************************************************************)
(* The ohlcv_bars table.  Bar ids are the table's primary key: every pair  *)
(* owns a range of MaxBars ids, and the k-th bar of a pair in timestamp    *)
(* order carries the k-th id of the range.                                 *)
(***************************************************************************)
BarId(tid, tf, k) == (((tid - 1) * Len(Timeframes)) + (TfIndex(tf) - 1)) * MaxBars + k
PairIds(tid, tf) == {BarId(tid, tf, k) : k \in 1..MaxBars}
AllBarIds == UNION {PairIds(p[1], p[2]) : p \in Pairs}

Bar(tid, tf, k) ==
    [id |-> BarId(tid, tf, k), ticker_id |-> tid,
     open |-> 100 + k, high |-> 104 + 2 * k, low |-> 98 + k,
     close |-> 100 + k * k, volume |-> 10 * k,
     timestamp |-> 34200 + 600 * k]

(***************************************************************************)
(* Indicator calculators and the pipeline.  Each stage writes its features *)
(* into results[i].features, overwriting an entry of the same name.        *)
(***************************************************************************)
short_window == 5
vol_short_window == 15
breakout_window == 20
market_open_hour == 9
market_open_minute == 30
total_trading_minutes == 390
open_window_minutes == 30
close_window_minutes == 60
midday_start == 120
midday_end == 240

Put(results, i, new) == [results[i] EXCEPT !.features = new @@ @]

\* Number of valid values among r[1..i]: the pushes a calculator that skips
\* NaN has made by position i (volatility.cpp:34 reads an index beyond the
\* end of r1_values as NaN).
ValidUpTo(r, i) == Cardinality({j \in 1..i : j <= Len(r) /\ is_valid(r[j])})

ReturnCalculator_r1(bars) ==
    [i \in 1..Len(bars) |->
        IF i >= 2 THEN log_return(bars[i].close, bars[i - 1].close) ELSE NaN]

ReturnCalculator_compute(bars, results) ==
    LET r1_out == ReturnCalculator_r1(bars)
    IN [i \in 1..Len(bars) |->
          Put(results, i,
              ("r1" :> r1_out[i]) @@
              ("r5" :> IF i - 1 >= short_window
                       THEN log_return(bars[i].close, bars[i - short_window].close)
                       ELSE NaN))]

VolatilityCalculator_compute(bars, results, r1_values) ==
    [i \in 1..Len(bars) |->
        Put(results, i,
            "rv_15" :> IF ValidUpTo(r1_values, i) >= vol_short_window
                       THEN <<"std", bars[i].id, vol_short_window>>
                       ELSE NaN)]

VolumeCalculator_compute(bars, results) ==
    [i \in 1..Len(bars) |-> Put(results, i, "vol1" :> Num(bars[i].volume))]

\* std::abs, std::max, std::min on the integer-valued prices of the model
Abs(x) == IF x < 0 THEN -x ELSE x
Max(a, b) == IF a > b THEN a ELSE b

\* (h - std::max(o, c)) / range
upper_wick(o, h, l, c) == <<"div", h - Max(o, c), h - l>>

\* intrabar.cpp:13-32.  range = h - l + EPS: a value <<"div", a, b>> is the
\* quotient a / (b + EPS).
IntrabarCalculator_compute(bars, results) ==
    [i \in 1..Len(bars) |->
        LET o == bars[i].open
            h == bars[i].high
            l == bars[i].low
            c == bars[i].close
        IN Put(results, i,
               "clv" :> <<"div", c - l, h - l>> @@
               "body_ratio" :> <<"div", Abs(c - o), h - l>> @@
               "upper_wick" :> upper_wick(o, h, l, c) @@
               "lower_wick" :> <<"div", Min(o, c) - l, h - l>>)]

AnchorCalculator_compute(bars, results) ==
    [i \in 1..Len(bars) |->
        Put(results, i,
            "breakout_20" :> IF i >= breakout_window /\ bars[i].close > 0
                             THEN <<"brk", bars[i].id, breakout_window>>
                             ELSE NaN)]

\* Minutes from the open with no clamping.
minutes_from_open_unclamped(timestamp) ==
    ((timestamp % 86400) \div 60) - (market_open_hour * 60 + market_open_minute)
\* time_of_day.cpp:20-30: gmtime_r, tm_hour * 60 + tm_min, minus the open
\* offset, clamped to the trading range
minutes_from_open(timestamp) ==
    LET minutes_of_day == (timestamp % 86400) \div 60
        raw == minutes_of_day - (market_open_hour * 60 + market_open_minute)
    IN IF raw < 0 THEN 0
       ELSE IF raw > total_trading_minutes THEN total_trading_minutes
       ELSE raw

\* time_of_day.cpp:16-46
TimeOfDayCalculator_compute(bars, results) ==
    [i \in 1..Len(bars) |->
        LET m == minutes_from_open(bars[i].timestamp)
        IN Put(results, i,
               "tod_sin" :> <<"sin", m, total_trading_minutes>> @@
               "tod_cos" :> <<"cos", m, total_trading_minutes>> @@
               "is_open_window" :>
                   (IF m < open_window_minutes THEN Num(1) ELSE Num(0)) @@
               "is_close_window" :>
                   (IF m > total_trading_minutes - close_window_minutes
                    THEN Num(1) ELSE Num(0)) @@
               "is_midday" :>
                   (IF m >= midday_start /\ m <= midday_end THEN Num(1) ELSE Num(0)))]

\* talib_wrapper.cpp:39-50: one library output under `name`: NaN before the
\* library's first valid index, the library's value from there on.  The
\* value at bar i is kept as the bars its lookback window spans.
write_output(bars, results, name, lookback) ==
    [i \in 1..Len(bars) |->
        Put(results, i,
            name :> IF i > lookback
                    THEN <<name, bars[i - lookback].id, bars[i].id>>
                    ELSE NaN)]

\* talib_wrapper.cpp:99-105: the library calls of compute_momentum; an output
\* is written only when its call returns TA_SUCCESS.
TALibCalculator_compute_momentum(bars, results, ta_success) ==
    IF ta_success
    THEN write_output(bars, write_output(bars, results, "rsi_14", 14), "rsi_2", 2)
    ELSE results

\* A clean-up that erases a feature of the Intrabar stage with its temporary.
TALibCalculator_compute_derived_erase_clv(bars, results) ==
    LET tmp == [i \in 1..Len(bars) |->
                   Put(results, i,
                       ("bar_range" :> Num(bars[i].high - bars[i].low)) @@
                       ("typical_price" :> <<"tp", bars[i].id, 0>>))]
    IN [i \in 1..Len(bars) |->
          [tmp[i] EXCEPT !.features =
              [k \in (DOMAIN tmp[i].features) \ {"typical_price", "clv"} |->
                  tmp[i].features[k]]]]

\* talib_wrapper.cpp:359-433: compute_derived; typical_price is written as a
\* temporary (385) and erased again (430-431).
TALibCalculator_compute_derived(bars, results) ==
    LET tmp == [i \in 1..Len(bars) |->
                   Put(results, i,
                       ("bar_range" :> Num(bars[i].high - bars[i].low)) @@
                       ("typical_price" :> <<"tp", bars[i].id, 0>>))]
    IN [i \in 1..Len(bars) |->
          [tmp[i] EXCEPT !.features =
              [k \in (DOMAIN tmp[i].features) \ {"typical_price"} |-> tmp[i].features[k]]]]

\* talib_wrapper.cpp:59-86.  With HAS_TALIB: the library calls between
\* TA_Initialize and TA_Shutdown, then the local derivations; without it
\* every TA-Lib name of the fallback list is written as NaN.
TALibCalculator_compute(bars, results, has_talib, ta_success) ==
    IF has_talib
    THEN TALibCalculator_compute_derived(
             bars, TALibCalculator_compute_momentum(bars, results, ta_success))
    ELSE [i \in 1..Len(bars) |-> Put(results, i, "rsi_14" :> NaN)]

\* pipeline.cpp:19-22: one result per bar, carrying the bar's id.
InitResults(bars) ==
    [i \in 1..Len(bars) |-> [bar_id |-> bars[i].id, features |-> EmptyFeatures]]

\* The order pipeline.cpp:26-53 runs the calculators in.
StageNames ==
    <<"Returns", "Volatility", "Volume", "Intrabar", "Anchor", "TimeOfDay", "TALib">>

\* A pipeline that runs Volatility before Returns.
RunStage_volatility_first(k, bars, results, r1_values, has_talib, ta_success) ==
    CASE k = 1 -> VolatilityCalculator_compute(bars, results, r1_values)
      [] k = 2 -> ReturnCalculator_compute(bars, results)
      [] k = 3 -> VolumeCalculator_compute(bars, results)
      [] k = 4 -> IntrabarCalculator_compute(bars, results)
      [] k = 5 -> AnchorCalculator_compute(bars, results)
      [] k = 6 -> TimeOfDayCalculator_compute(bars, results)
      [] k = 7 -> TALibCalculator_compute(bars, results, has_talib, ta_success)

\* The k-th calculator call of Pipeline::compute.
RunStage(k, bars, results, r1_values, has_talib, ta_success) ==
    CASE k = 1 -> ReturnCalculator_compute(bars, results)
      [] k = 2 -> VolatilityCalculator_compute(bars, results, r1_values)
      [] k = 3 -> VolumeCalculator_compute(bars, results)
      [] k = 4 -> IntrabarCalculator_compute(bars, results)
      [] k = 5 -> AnchorCalculator_compute(bars, results)
      [] k = 6 -> TimeOfDayCalculator_compute(bars, results)
      [] k = 7 -> TALibCalculator_compute(bars, results, has_talib, ta_success)

\* The results after the first k calculators.
RECURSIVE RunStages(_, _, _, _)
RunStages(k, bars, has_talib, ta_success) ==
    IF k = 0 THEN InitResults(bars)
    ELSE RunStage(k, bars, RunStages(k - 1, bars, has_talib, ta_success),
                  ReturnCalculator_r1(bars), has_talib, ta_success)

\* pipeline.cpp:14-57
Pipeline_run(bars, has_talib, ta_success) ==
    IF Len(bars) = 0 THEN <<>>
    ELSE RunStages(Len(StageNames), bars, has_talib, ta_success)

\* The service is modelled in its build with the TA-Lib binding.
HAS_TALIB == TRUE

\* Pipeline::compute with the library initialised throughout the call.
Pipeline_compute(bars) == Pipeline_run(bars, HAS_TALIB, TRUE)

(***************************************************************************)
(* The data service: ohlcv_bars, computed_features and the tickers table.  *)
(***************************************************************************)
VARIABLES
    mn,                 \* main(): its position and the configured mode
    running,            \* Service::running_
    ohlcv,              \* ohlcv_bars: the number of bars each pair holds
    computed_features,  \* computed_features: bar id -> row, for the ids that have one
    inbox,              \* request messages the subscription socket has received
    to_deliver,         \* how many requests the bus has yet to deliver
    published,          \* PUBLISH commands issued while the current message is handled
    sw,                 \* run_service_loop: position and loop variables
    ls,                 \* run_listener / subscribe / handle_compute_request
    cft,                \* compute_for_ticker: one activation per calling thread
    ta_lib,             \* the TA-Lib library's process-wide state: "up" between
                        \* TA_Initialize and TA_Shutdown, else "down"
    pl,                 \* one Pipeline::compute call followed stage by stage
    rw,                 \* one RollingStats, RollingSum and RollingSlope being pushed to
    ut                  \* one call of a free function: its input and, once made, its output

vars == <<mn, running, ohlcv, computed_features, inbox, to_deliver, published, sw, ls, cft,
          ta_lib, pl, rw, ut>>

Ctx == {"sweep", "listener"}

read_ohlcv_bars(tbl, tid, tf) ==
    IF <<tid, tf>> \in DOMAIN tbl
    THEN [k \in 1..tbl[<<tid, tf>>] |-> Bar(tid, tf, k)]
    ELSE <<>>

\* A query that reports no feature row.
get_existing_feature_bar_ids_none(cf, tid, tf) == {}
get_existing_feature_bar_ids(cf, tid, tf) ==
    {id \in DOMAIN cf : cf[id].ticker_id = tid /\ cf[id].timeframe = tf}

get_active_tickers == TickerTable

get_ticker(symbol) ==
    IF \E i \in 1..Len(TickerTable) : TickerTable[i].symbol = symbol
    THEN TickerTable[CHOOSE i \in 1..Len(TickerTable) : TickerTable[i].symbol = symbol]
    ELSE [id |-> 0, symbol |-> ""]

\* A serializer that writes every entry.
build_features_json_all(features) == {<<k, features[k]>> : k \in DOMAIN features}
\* json_builder.cpp:8-19: the JSON object as its set of key/number members;
\* the empty set is the text "{}".
build_features_json(features) ==
    {<<k, features[k]>> : k \in {key \in DOMAIN features : is_valid(features[key])}}

\* The feature map of one request row: NaN and infinite values are left out.
FiniteOnly(features) ==
    [k \in {key \in DOMAIN features : is_valid(features[key])} |-> features[k]]

\* An upsert that updates the rows it finds and inserts none.
UpsertRow_update_only(cf, r, tid, tf, ver) ==
    IF r.bar_id \in DOMAIN cf
    THEN [cf EXCEPT ![r.bar_id].features = r.features,
                    ![r.bar_id].feature_version = ver]
    ELSE cf
\* INSERT ... ON CONFLICT (bar_id) DO UPDATE SET features, feature_version
UpsertRow(cf, r, tid, tf, ver) ==
    IF r.bar_id \in DOMAIN cf
    THEN [cf EXCEPT ![r.bar_id].features = r.features,
                    ![r.bar_id].feature_version = ver]
    ELSE (r.bar_id :> [ticker_id |-> tid, timeframe |-> tf,
                       features |-> r.features, feature_version |-> ver]) @@ cf

RECURSIVE BulkUpsertFeatures(_, _, _, _, _)
BulkUpsertFeatures(cf, rows, tid, tf, ver) ==
    IF rows = <<>> THEN cf
    ELSE BulkUpsertFeatures(UpsertRow(cf, Head(rows), tid, tf, ver), Tail(rows), tid, tf, ver)

NumChunks(n) == (n + CHUNK_SIZE - 1) \div CHUNK_SIZE

ChunkRequest(results, j) ==
    LET lo == (j - 1) * CHUNK_SIZE
        hi == Min(lo + CHUNK_SIZE, Len(results))
    IN [x \in 1..(hi - lo) |->
          [bar_id |-> results[lo + x].bar_id,
           features |-> FiniteOnly(results[lo + x].features)]]

RECURSIVE UpsertChunks(_, _, _, _, _, _)
UpsertChunks(cf, results, tid, tf, ver, j) ==
    IF j = 0 THEN cf
    ELSE BulkUpsertFeatures(UpsertChunks(cf, results, tid, tf, ver, j - 1),
                            ChunkRequest(results, j), tid, tf, ver)

\* DataServiceClient::batch_upsert_features when the first nOk of its RPCs
\* succeed: the table afterwards, the rows the store reported, and whether
\* check_status threw on RPC nOk + 1.
batch_upsert_features(cf, results, tid, tf, ver, nOk) ==
    [table |-> UpsertChunks(cf, results, tid, tf, ver, nOk),
     total_upserted |-> Min(nOk * CHUNK_SIZE, Len(results)),
     threw |-> nOk < NumChunks(Len(results))]

(***************************************************************************)
(* Service::compute_for_ticker.  One activation record per calling thread: *)
(* its position, its locals, and a log of what the activation has done     *)
(* (store_existing, pipe_in, sent, counts).                                *)
(***************************************************************************)
IdleCft ==
    [pc |-> "none", ticker_id |-> 0, timeframe |-> "",
     bars |-> <<>>, existing |-> {}, missing |-> {}, to_write |-> <<>>,
     i |-> 0, total_written |-> 0,
     stats |-> [bars_computed |-> 0, bars_skipped |-> 0],
     results |-> <<>>,
     store_existing |-> {}, pipe_in |-> <<>>, sent |-> <<>>, counts |-> <<>>]

\* Entry: ComputeStats stats; (service.cpp:83-84)
EnterCft(tid, tf) == [IdleCft EXCEPT !.pc = "read_bars", !.ticker_id = tid, !.timeframe = tf]

\* A filter that lets every result through.
FilterMissing_all(results, missing) == results

\* A filter that loses the first missing result.
FilterMissing_skipfirst(results, missing) ==
    LET kept == SelectSeq(results, LAMBDA r : r.bar_id \in missing)
    IN IF kept = <<>> THEN <<>> ELSE Tail(kept)

\* service.cpp:116-122: the results whose bar id is in missing, in order.
RECURSIVE FilterMissing(_, _)
FilterMissing(results, missing) ==
    IF results = <<>> THEN <<>>
    ELSE IF Head(results).bar_id \in missing
         THEN <<Head(results)>> \o FilterMissing(Tail(results), missing)
         ELSE FilterMissing(Tail(results), missing)

\* An early return that is never taken.
NothingMissing_never(missing) == FALSE

\* service.cpp:104: is there nothing to compute?
NothingMissing(missing) == missing = {}

\* A pipeline run over the missing bars alone.
PipelineInput_missing(bars, missing) == SelectSeq(bars, LAMBDA b : b.id \in missing)

\* The bars the pipeline is run over (service.cpp:113).
PipelineInput(bars, missing) == bars

\* stats.bars_skipped (service.cpp:102).
SkippedCount(bars, existing, missing) == Cardinality(existing)

\* A slice whose end is one row too far.
BatchSlice_long(to_write, i) ==
    SubSeq(to_write, i + 1, Min(i + WRITE_BATCH_SIZE + 1, Len(to_write)))

\* The slice [i, end) of to_write that one loop iteration writes (service.cpp:127-131).
BatchSlice(to_write, i) ==
    SubSeq(to_write, i + 1, Min(i + WRITE_BATCH_SIZE, Len(to_write)))

\* A handler whose exception leaves subscribe and run_listener.
Caught_propagates(l) == [l EXCEPT !.pc = "returned", !.outcome = "exception"]

\* service.cpp:69-73: the listener's handler catches std::exception, logs it
\* and returns to the subscription loop.
Caught(l) == [l EXCEPT !.pc = "handled", !.outcome = "exception"]

\* A write loop that also stops when the running flag is cleared.
WriteLoopContinues_stoppable(i, to_write, run) == run /\ i < Len(to_write)

\* service.cpp:126, the loop condition i < to_write.size(); the running flag
\* is not part of it.
WriteLoopContinues(i, to_write, run) == i < Len(to_write)

\* An exception that ends the sweep loop instead of the iteration.
Unwind_ends(c) ==
    /\ cft' = [cft EXCEPT ![c] = IdleCft]
    /\ IF c = "sweep"
       THEN /\ sw' = [sw EXCEPT !.pc = "done"]
            /\ UNCHANGED ls
       ELSE /\ ls' = Caught(ls)
            /\ UNCHANGED sw

\* An exception caught inside the loops, which go on with the next pair.
Unwind_next_pair(c) ==
    /\ cft' = [cft EXCEPT ![c] = IdleCft]
    /\ IF c = "sweep"
       THEN /\ sw' = [sw EXCEPT !.pc = "for", !.fi = @ + 1,
                               !.completed = @ \ {<<cft[c].ticker_id, cft[c].timeframe>>}]
            /\ UNCHANGED ls
       ELSE /\ ls' = Caught(ls)
            /\ UNCHANGED sw

\* An exception leaves compute_for_ticker and is caught by the calling loop:
\* run_service_loop's catch (service.cpp:47-49) or the listener's handler
\* (service.cpp:71-73).
Unwind(c) ==
    /\ cft' = [cft EXCEPT ![c] = IdleCft]
    /\ IF c = "sweep"
       THEN /\ sw' = [sw EXCEPT !.pc = "sleep_check",
                               !.completed = @ \ {<<cft[c].ticker_id, cft[c].timeframe>>}]
            /\ UNCHANGED ls
       ELSE /\ ls' = Caught(ls)
            /\ UNCHANGED sw

Alive == mn.pc = "run"

\* service.cpp:87-88
CftReadBars(c) ==
    /\ Alive
    /\ cft[c].pc = "read_bars"
    /\ \/ LET bars == read_ohlcv_bars(ohlcv, cft[c].ticker_id, cft[c].timeframe)
          IN /\ cft' = [cft EXCEPT ![c] =
                          IF bars = <<>>
                          THEN [@ EXCEPT !.pc = "return",
                                         !.store_existing =
                                             get_existing_feature_bar_ids(
                                                 computed_features, cft[c].ticker_id, cft[c].timeframe)]
                          ELSE [@ EXCEPT !.pc = "get_existing", !.bars = bars]]
             /\ UNCHANGED <<sw, ls>>
       \/ Unwind(c)
    /\ UNCHANGED <<mn, running, ohlcv, computed_features, inbox, to_deliver, published, ta_lib, pl, rw, ut>>

\* service.cpp:91-113 and, inside pipeline_.compute, pipeline.cpp:14-49 and
\* talib_wrapper.cpp:64: the existing ids, the missing set, then the six
\* calculators that keep all their state in the call, and TA_Initialize
CftGetExisting(c) ==
    /\ Alive
    /\ cft[c].pc = "get_existing"
    /\ \/ LET a == cft[c]
              existing == get_existing_feature_bar_ids(computed_features, a.ticker_id, a.timeframe)
              all_ids == {a.bars[k].id : k \in 1..Len(a.bars)}
              missing == {id \in all_ids : id \notin existing}
              skipped == SkippedCount(a.bars, existing, missing)
              input == PipelineInput(a.bars, missing)
          IN /\ cft' = [cft EXCEPT ![c] =
                          IF NothingMissing(missing)
                          THEN [@ EXCEPT !.pc = "return", !.existing = existing,
                                         !.store_existing = existing,
                                         !.stats.bars_skipped = skipped]
                          ELSE [@ EXCEPT !.pc = "talib", !.existing = existing,
                                         !.store_existing = existing,
                                         !.missing = missing,
                                         !.stats.bars_skipped = skipped,
                                         !.pipe_in = Append(@, input),
                                         !.results = RunStages(6, input, HAS_TALIB, TRUE)]]
             /\ ta_lib' = IF ~NothingMissing(missing) /\ HAS_TALIB THEN "up" ELSE ta_lib
             /\ UNCHANGED <<sw, ls>>
       \/ Unwind(c) /\ UNCHANGED ta_lib
    /\ UNCHANGED <<mn, running, ohlcv, computed_features, inbox, to_deliver, published, pl, rw, ut>>

\* talib_wrapper.cpp:65-69: the library calls and the local derivations.  A
\* call made while another thread's TA_Shutdown has taken the library down
\* is outside the library's contract: it may still succeed or may fail.
CftTalib(c) ==
    /\ Alive
    /\ cft[c].pc = "talib"
    /\ \E ta_success \in (IF ta_lib = "up" \/ ~HAS_TALIB THEN {TRUE} ELSE BOOLEAN) :
         cft' = [cft EXCEPT ![c].pc = "ta_shutdown",
                            ![c].results =
                                TALibCalculator_compute(
                                    PipelineInput(cft[c].bars, cft[c].missing),
                                    cft[c].results, HAS_TALIB, ta_success)]
    /\ UNCHANGED <<mn, running, ohlcv, computed_features, inbox, to_deliver, published, sw, ls, ta_lib, pl, rw, ut>>

\* talib_wrapper.cpp:70, pipeline.cpp:56, service.cpp:113-122: TA_Shutdown,
\* the pipeline returns, and the results are filtered down to the missing ids
CftTaShutdown(c) ==
    /\ Alive
    /\ cft[c].pc = "ta_shutdown"
    /\ ta_lib' = IF HAS_TALIB THEN "down" ELSE ta_lib
    /\ cft' = [cft EXCEPT ![c].pc = "write_loop",
                          ![c].to_write = FilterMissing(cft[c].results, cft[c].missing),
                          ![c].results = <<>>,
                          ![c].i = 0, ![c].total_written = 0]
    /\ UNCHANGED <<mn, running, ohlcv, computed_features, inbox, to_deliver, published, sw, ls, pl, rw, ut>>

\* service.cpp:126-138, one iteration of the write loop
CftWriteBatch(c) ==
    /\ Alive
    /\ cft[c].pc = "write_loop"
    /\ WriteLoopContinues(cft[c].i, cft[c].to_write, running)
    /\ LET a == cft[c]
           batch == BatchSlice(a.to_write, a.i)
       IN \E nOk \in 0..NumChunks(Len(batch)) :
            LET res == batch_upsert_features(computed_features, batch, a.ticker_id,
                                             a.timeframe, feature_version, nOk)
            IN /\ computed_features' = res.table
               /\ IF res.threw
                  THEN Unwind(c)
                  ELSE /\ cft' = [cft EXCEPT ![c].total_written = @ + res.total_upserted,
                                             ![c].i = @ + WRITE_BATCH_SIZE,
                                             ![c].sent = Append(@, batch),
                                             ![c].counts = Append(@, res.total_upserted)]
                       /\ UNCHANGED <<sw, ls>>
    /\ UNCHANGED <<mn, running, ohlcv, inbox, to_deliver, published, ta_lib, pl, rw, ut>>

\* service.cpp:126 (loop exit), 139-141
CftWriteDone(c) ==
    /\ Alive
    /\ cft[c].pc = "write_loop"
    /\ ~WriteLoopContinues(cft[c].i, cft[c].to_write, running)
    /\ cft' = [cft EXCEPT ![c].stats.bars_computed = cft[c].total_written,
                          ![c].pc = "return"]
    /\ UNCHANGED <<mn, running, ohlcv, computed_features, inbox, to_deliver, published, sw, ls, ta_lib, pl, rw, ut>>

(***************************************************************************)
(* Service::run_service_loop: the periodic sweep.                          *)
(***************************************************************************)
\* service.cpp:25, the while condition
SwWhile ==
    /\ Alive
    /\ sw.pc = "while"
    /\ sw' = [sw EXCEPT !.pc = IF running THEN "get_tickers" ELSE "done"]
    /\ UNCHANGED <<mn, running, ohlcv, computed_features, inbox, to_deliver, published, ls, cft, ta_lib, pl, rw, ut>>

\* service.cpp:29-32; a failed ListTickers is caught at 47-49
SwGetTickers ==
    /\ Alive
    /\ sw.pc = "get_tickers"
    /\ \/ sw' = [sw EXCEPT !.pc = "for", !.tickers = get_active_tickers,
                           !.ti = 1, !.fi = 1]
       \/ sw' = [sw EXCEPT !.pc = "sleep_check"]
    /\ UNCHANGED <<mn, running, ohlcv, computed_features, inbox, to_deliver, published, ls, cft, ta_lib, pl, rw, ut>>

\* service.cpp:34-36, the two for loops up to the call; the loops test only
\* their ranges
SwFor ==
    /\ Alive
    /\ sw.pc = "for"
    /\ IF sw.ti > Len(sw.tickers)
       THEN /\ sw' = [sw EXCEPT !.pc = "sleep_check"]
            /\ UNCHANGED cft
       ELSE IF sw.fi > Len(Timeframes)
       THEN /\ sw' = [sw EXCEPT !.ti = @ + 1, !.fi = 1]
            /\ UNCHANGED cft
       ELSE /\ sw' = [sw EXCEPT !.pc = "cft"]
            /\ cft' = [cft EXCEPT !["sweep"] =
                          EnterCft(sw.tickers[sw.ti].id, Timeframes[sw.fi])]
    /\ UNCHANGED <<mn, running, ohlcv, computed_features, inbox, to_deliver, published, ls, ta_lib, pl, rw, ut>>

\* service.cpp:36-38, the call returns (total_computed and total_skipped are
\* only logged and are not kept)
SwAfterCompute ==
    /\ Alive
    /\ sw.pc = "cft"
    /\ cft["sweep"].pc = "return"
    /\ sw' = [sw EXCEPT !.pc = "for", !.fi = @ + 1,
                        !.completed = @ \cup {<<cft["sweep"].ticker_id, cft["sweep"].timeframe>>}]
    /\ cft' = [cft EXCEPT !["sweep"] = IdleCft]
    /\ UNCHANGED <<mn, running, ohlcv, computed_features, inbox, to_deliver, published, ls, ta_lib, pl, rw, ut>>

\* service.cpp:52-56: sleep only if time remains and the service is running
SwSleepCheck ==
    /\ Alive
    /\ sw.pc = "sleep_check"
    /\ \E remaining_positive \in BOOLEAN :
         sw' = [sw EXCEPT !.pc = IF remaining_positive /\ running
                                 THEN "sleeping" ELSE "while",
                          !.tickers = <<>>, !.ti = 0, !.fi = 0]
    /\ UNCHANGED <<mn, running, ohlcv, computed_features, inbox, to_deliver, published, ls, cft, ta_lib, pl, rw, ut>>

\* service.cpp:55, sleep_for returns
SwWake ==
    /\ Alive
    /\ sw.pc = "sleeping"
    /\ sw' = [sw EXCEPT !.pc = "while"]
    /\ UNCHANGED <<mn, running, ohlcv, computed_features, inbox, to_deliver, published, ls, cft, ta_lib, pl, rw, ut>>

\* Service::stop, called by signal_handler once g_service is set
Stop ==
    /\ mn.pc \in {"dispatch", "run"}
    /\ running
    /\ running' = FALSE
    /\ UNCHANGED <<mn, ohlcv, computed_features, inbox, to_deliver, published, sw, ls, cft, ta_lib, pl, rw, ut>>

(***************************************************************************)
(* Request messages and outbound events.                                   *)
(***************************************************************************)
Absent == "<absent>"
Malformed == [malformed |-> TRUE]
NoMsg == [none |-> TRUE]

\* The payloads the bus may deliver: well-formed requests, with or without a
\* timeframe, and a payload that is not JSON.
Requests ==
    {[symbol |-> "AAPL", timeframe |-> "1Min", correlation_id |-> "c1"],
     [symbol |-> "AAPL", timeframe |-> Absent, correlation_id |-> "c2"],
     [symbol |-> UnknownSymbol, timeframe |-> "1Min", correlation_id |-> "c3"],
     Malformed}

\* json::value(key, default)
JsonValue(field, default) == IF field = Absent THEN default ELSE field

\* A failure event built without the request's correlation id.
FailedEvent_nocid(symbol, correlation_id) ==
    [event_type |-> "indicator_compute_failed",
     payload |-> [symbol |-> symbol, error |-> "Ticker not found"],
     source |-> "indicator-engine",
     correlation_id |-> ""]

\* service.cpp:158-166
FailedEvent(symbol, correlation_id) ==
    [event_type |-> "indicator_compute_failed",
     payload |-> [symbol |-> symbol, error |-> "Ticker not found"],
     source |-> "indicator-engine",
     correlation_id |-> correlation_id]

\* A completion event with the two counts exchanged.
CompleteEvent_swapped(symbol, timeframe, stats, correlation_id) ==
    [event_type |-> "indicator_compute_complete",
     payload |-> [symbol |-> symbol, timeframe |-> timeframe,
                  bars_computed |-> stats.bars_skipped,
                  bars_skipped |-> stats.bars_computed],
     source |-> "indicator-engine",
     correlation_id |-> correlation_id]

\* service.cpp:174-183
CompleteEvent(symbol, timeframe, stats, correlation_id) ==
    [event_type |-> "indicator_compute_complete",
     payload |-> [symbol |-> symbol, timeframe |-> timeframe,
                  bars_computed |-> stats.bars_computed,
                  bars_skipped |-> stats.bars_skipped],
     source |-> "indicator-engine",
     correlation_id |-> correlation_id]

(***************************************************************************)
(* Service::run_listener, RedisBus::subscribe and                          *)
(* Service::handle_compute_request.  ls.calls, ls.stats and ls.outcome log *)
(* the handling of the message in ls.msg.                                  *)
(***************************************************************************)
IdleLs ==
    [pc |-> "off", msg |-> NoMsg, symbol |-> "", timeframe |-> "",
     correlation_id |-> "", ticker_id |-> 0,
     calls |-> 0,
     stats |-> [bars_computed |-> 0, bars_skipped |-> 0],
     outcome |-> "none"]

\* redis_bus.cpp:57-71: the subscription connects, or throws out of
\* run_listener into main (main.cpp:62-105).  In "both" mode the exception
\* unwinds past the joinable service_thread, which ends the process.
LsConnect ==
    /\ Alive
    /\ ls.pc = "connect"
    /\ \/ /\ ls' = [ls EXCEPT !.pc = "recv"]
          /\ UNCHANGED mn
       \/ /\ ls' = [ls EXCEPT !.pc = "threw"]
          /\ mn' = [mn EXCEPT !.pc = IF mn.mode = "both" THEN "abort" ELSE "exit1"]
    /\ UNCHANGED <<running, ohlcv, computed_features, inbox, to_deliver, published, sw, cft, ta_lib, pl, rw, ut>>

\* A subscription that reads the next message while the handler of the
\* previous one is still inside compute_for_ticker.
LsRecv_reentrant ==
    /\ Alive
    /\ ls.pc \in {"recv", "cft"}
    /\ inbox # <<>>
    /\ ls' = [ls EXCEPT !.pc = "handler", !.msg = Head(inbox)]
    /\ inbox' = Tail(inbox)
    /\ UNCHANGED <<mn, running, ohlcv, computed_features, to_deliver, published, sw, cft, ta_lib, pl, rw, ut>>

\* redis_bus.cpp:73-85: redisGetReply returns a message
LsRecv ==
    /\ Alive
    /\ ls.pc = "recv"
    /\ inbox # <<>>
    /\ ls' = [ls EXCEPT !.pc = "handler", !.msg = Head(inbox)]
    /\ inbox' = Tail(inbox)
    /\ UNCHANGED <<mn, running, ohlcv, computed_features, to_deliver, published, sw, cft, ta_lib, pl, rw, ut>>

\* redis_bus.cpp:75-78, 91: redisGetReply fails, subscribe and run_listener return
LsSubError ==
    /\ Alive
    /\ ls.pc = "recv"
    /\ ls' = [ls EXCEPT !.pc = "returned"]
    /\ UNCHANGED <<mn, running, ohlcv, computed_features, inbox, to_deliver, published, sw, cft, ta_lib, pl, rw, ut>>

\* service.cpp:68-70, 146-153: the running check, then the parse
LsHandler ==
    /\ Alive
    /\ ls.pc = "handler"
    /\ ls' = IF ~running
             THEN [ls EXCEPT !.pc = "handled", !.outcome = "dropped"]
             ELSE IF ls.msg = Malformed
             THEN Caught(ls)
             ELSE [ls EXCEPT !.pc = "lookup",
                             !.symbol = JsonValue(ls.msg.symbol, ""),
                             !.timeframe = JsonValue(ls.msg.timeframe, "5Min"),
                             !.correlation_id = JsonValue(ls.msg.correlation_id, "")]
    /\ UNCHANGED <<mn, running, ohlcv, computed_features, inbox, to_deliver, published, sw, cft, ta_lib, pl, rw, ut>>

\* service.cpp:156-157, 171: get_ticker, then the not-found branch or the call
LsLookup ==
    /\ Alive
    /\ ls.pc = "lookup"
    /\ \/ LET ticker == get_ticker(ls.symbol)
          IN IF ticker.id = 0
             THEN /\ ls' = [ls EXCEPT !.pc = "pub_failed", !.ticker_id = 0]
                  /\ UNCHANGED cft
             ELSE /\ ls' = [ls EXCEPT !.pc = "cft", !.ticker_id = ticker.id,
                                      !.calls = @ + 1]
                  /\ cft' = [cft EXCEPT !["listener"] = EnterCft(ticker.id, ls.timeframe)]
       \/ /\ ls' = Caught(ls)
          /\ UNCHANGED cft
    /\ UNCHANGED <<mn, running, ohlcv, computed_features, inbox, to_deliver, published, sw, ta_lib, pl, rw, ut>>

\* service.cpp:158-167
LsPublishFailed ==
    /\ Alive
    /\ ls.pc = "pub_failed"
    /\ LET ev == FailedEvent(ls.symbol, ls.correlation_id)
       IN /\ published' = Append(published, ev)
          /\ ls' = [ls EXCEPT !.pc = "handled", !.outcome = "ok"]
    /\ UNCHANGED <<mn, running, ohlcv, computed_features, inbox, to_deliver, sw, cft, ta_lib, pl, rw, ut>>

\* service.cpp:171-187: the call returns, then the completion event
LsPublishComplete ==
    /\ Alive
    /\ ls.pc = "cft"
    /\ cft["listener"].pc = "return"
    /\ LET stats == cft["listener"].stats
           ev == CompleteEvent(ls.symbol, ls.timeframe, stats, ls.correlation_id)
       IN /\ published' = Append(published, ev)
          /\ ls' = [ls EXCEPT !.pc = "handled", !.stats = stats, !.outcome = "ok"]
    /\ cft' = [cft EXCEPT !["listener"] = IdleCft]
    /\ UNCHANGED <<mn, running, ohlcv, computed_features, inbox, to_deliver, sw, ta_lib, pl, rw, ut>>

\* redis_bus.cpp:88, 73: the handler has returned, the reply is freed and the
\* loop goes round
LsLoop ==
    /\ Alive
    /\ ls.pc = "handled"
    /\ ls' = [IdleLs EXCEPT !.pc = "recv"]
    /\ published' = <<>>
    /\ UNCHANGED <<mn, running, ohlcv, computed_features, inbox, to_deliver, sw, cft, ta_lib, pl, rw, ut>>

\* The bus delivers a request to the subscribed connection.
Deliver ==
    /\ Alive
    /\ ls.pc \in {"recv", "handler", "lookup", "pub_failed", "cft", "handled"}
    /\ to_deliver > 0
    /\ \E m \in Requests : inbox' = Append(inbox, m)
    /\ to_deliver' = to_deliver - 1
    /\ UNCHANGED <<mn, running, ohlcv, computed_features, published, sw, ls, cft, ta_lib, pl, rw, ut>>

(***************************************************************************)
(* main()                                                                  *)
(***************************************************************************)
\* A startup that logs a failed health check and carries on.
MainDbInit_ignore ==
    /\ mn.pc = "db_init"
    /\ \E healthy \in BOOLEAN :
         mn' = [mn EXCEPT !.pc = "redis_init",
                          !.db_healthy = IF healthy THEN "yes" ELSE "no"]
    /\ UNCHANGED <<running, ohlcv, computed_features, inbox, to_deliver, published, sw, ls, cft, ta_lib, pl, rw, ut>>

\* main.cpp:62-68: the store connection and its health check; mn.db_healthy
\* keeps what db.health_check() returned
MainDbInit ==
    /\ mn.pc = "db_init"
    /\ \E healthy \in BOOLEAN :
         mn' = [mn EXCEPT !.pc = IF healthy THEN "redis_init" ELSE "exit1",
                          !.db_healthy = IF healthy THEN "yes" ELSE "no"]
    /\ UNCHANGED <<running, ohlcv, computed_features, inbox, to_deliver, published, sw, ls, cft, ta_lib, pl, rw, ut>>

\* main.cpp:71-80: the bus connection (its constructor throws when it cannot
\* connect), then the service object and g_service
MainRedisInit ==
    /\ mn.pc = "redis_init"
    /\ \E connected \in BOOLEAN :
         mn' = [mn EXCEPT !.pc = IF connected THEN "dispatch" ELSE "exit1"]
    /\ UNCHANGED <<running, ohlcv, computed_features, inbox, to_deliver, published, sw, ls, cft, ta_lib, pl, rw, ut>>

\* main.cpp:82-93: the loops the mode selects are entered
MainDispatch ==
    /\ mn.pc = "dispatch"
    /\ mn' = [mn EXCEPT !.pc = "run"]
    /\ sw' = IF mn.mode \in {"service", "both"} THEN [sw EXCEPT !.pc = "while"] ELSE sw
    /\ ls' = IF mn.mode \in {"listener", "both"} THEN [ls EXCEPT !.pc = "connect"] ELSE ls
    /\ UNCHANGED <<running, ohlcv, computed_features, inbox, to_deliver, published, cft, ta_lib, pl, rw, ut>>

\* main.cpp:83-99: the selected loops have returned (and the thread is joined)
MainExit ==
    /\ mn.pc = "run"
    /\ mn.mode \in {"service", "both"} => sw.pc = "done"
    /\ mn.mode \in {"listener", "both"} => ls.pc = "returned"
    /\ mn' = [mn EXCEPT !.pc = "exit0"]
    /\ UNCHANGED <<running, ohlcv, computed_features, inbox, to_deliver, published, sw, ls, cft, ta_lib, pl, rw, ut>>

(***************************************************************************)
(* The initial state and the specification.                                *)
(***************************************************************************)
\* No pipeline call is being followed.
IdlePl == [pc |-> "off"]

\* No rolling primitive is being exercised.
IdleRw == [pc |-> "off"]

\* No free function is being called.
IdleUt == [pc |-> "off"]

\* completed logs the pairs whose latest sweep invocation returned.
IdleSw ==
    [pc |-> "off", tickers |-> <<>>, ti |-> 0, fi |-> 0, completed |-> {}]

\* A computed_features row written by an earlier run.
EarlierRow(tid, tf) ==
    [ticker_id |-> tid, timeframe |-> tf,
     features |-> ("vol1" :> Num(0)), feature_version |-> "v1.0"]

\* The shapes a pair's tables start in: n bars, and feature rows for the
\* positions in E of the pair's id range.  A row whose position is beyond n
\* belongs to a bar that ohlcv_bars no longer holds.
Shapes == {sh \in (0..MaxBars) \X (SUBSET (1..MaxBars)) : TRUE}
ShapesOfHeldBars == {sh \in Shapes : sh[2] \subseteq 1..sh[1]}

\* Every pair starts with the same shape.
InitMode(mode, shapes, msgs) ==
    /\ mn = [pc |-> "db_init", mode |-> mode, db_healthy |-> "unknown"]
    /\ running = TRUE
    /\ \E sh \in shapes :
         /\ ohlcv = [p \in Pairs |-> sh[1]]
         /\ computed_features =
              [id \in UNION {{BarId(p[1], p[2], k) : k \in sh[2]} : p \in Pairs} |->
                  LET p == CHOOSE q \in Pairs : id \in PairIds(q[1], q[2])
                  IN EarlierRow(p[1], p[2])]
    /\ inbox = <<>>
    /\ to_deliver = msgs
    /\ published = <<>>
    /\ sw = IdleSw
    /\ ls = IdleLs
    /\ cft = [c \in Ctx |-> IdleCft]
    /\ ta_lib = "down"
    /\ pl = IdlePl
    /\ rw = IdleRw
    /\ ut = IdleUt

MainStep ==
    \/ MainDbInit
    \/ MainRedisInit
    \/ MainDispatch
    \/ MainExit

SweepStep ==
    \/ SwWhile
    \/ SwGetTickers
    \/ SwFor
    \/ SwAfterCompute
    \/ SwSleepCheck
    \/ SwWake
    \/ CftReadBars("sweep")
    \/ CftGetExisting("sweep")
    \/ CftTalib("sweep")
    \/ CftTaShutdown("sweep")
    \/ CftWriteBatch("sweep")
    \/ CftWriteDone("sweep")

ListenerStep ==
    \/ LsConnect
    \/ LsRecv
    \/ LsHandler
    \/ LsLookup
    \/ LsPublishFailed
    \/ LsPublishComplete
    \/ LsLoop
    \/ CftReadBars("listener")
    \/ CftGetExisting("listener")
    \/ CftTalib("listener")
    \/ CftTaShutdown("listener")
    \/ CftWriteBatch("listener")
    \/ CftWriteDone("listener")

\* What the environment does to the listener: a request arrives, or the
\* subscription's connection fails.
BusStep ==
    \/ Deliver
    \/ LsSubError

\* mode "both": the sweep on its own thread, the listener on main's.
Init == InitMode("both", ShapesOfHeldBars, MaxMsgsBoth)
Next == MainStep \/ Stop \/ SweepStep \/ ListenerStep \/ BusStep
Spec == Init /\ [][Next]_vars

\* mode "service": the sweep alone.
InitSweep == InitMode("service", Shapes, 0)
NextSweep == MainStep \/ Stop \/ SweepStep
SpecSweep == InitSweep /\ [][NextSweep]_vars

\* mode "listener": the listener alone.
InitListener == InitMode("listener", Shapes, MaxMsgs)
NextListener == MainStep \/ Stop \/ ListenerStep \/ BusStep
SpecListener == InitListener /\ [][NextListener]_vars

(***************************************************************************)
(* One Pipeline::compute call on its own, followed stage by stage.         *)
(***************************************************************************)
\* The bar sequences the call is given: the first n bars of a pair.
PairHistories ==
    {[k \in 1..n |-> Bar(p[1], p[2], k)] : n \in 0..MaxBars, p \in Pairs}

\* One-bar series over every combination of small prices.
PriceHistories ==
    {<<[Bar(1, Timeframes[1], 1) EXCEPT !.open = o, !.high = h, !.low = l, !.close = c]>> :
        o \in 1..MaxPrice, h \in 1..MaxPrice, l \in 1..MaxPrice, c \in 1..MaxPrice}

\* One-bar series stamped at chosen minutes of the day, on the first day of
\* the epoch, on a later day and on the day before the epoch.
ClockMinutes ==
    {0, 569, 570, 599, 600, 689, 690, 750, 810, 811, 900, 901, 959, 960, 961, 1439}
ClockHistories ==
    {<<[Bar(1, Timeframes[1], 1) EXCEPT !.timestamp = day * 86400 + 60 * m + sec]>> :
        m \in ClockMinutes, day \in {-1, 0, 2}, sec \in {0, 59}}

Histories == PairHistories \cup PriceHistories \cup ClockHistories

InitPipeline ==
    /\ mn = [pc |-> "unit", mode |-> "none", db_healthy |-> "unknown"]
    /\ running = TRUE
    /\ ohlcv = [p \in Pairs |-> 0]
    /\ computed_features = [id \in {} |-> EarlierRow(0, "")]
    /\ inbox = <<>>
    /\ to_deliver = 0
    /\ published = <<>>
    /\ sw = IdleSw
    /\ ls = IdleLs
    /\ cft = [c \in Ctx |-> IdleCft]
    /\ ta_lib = "down"
    /\ rw = IdleRw
    /\ ut = IdleUt
    /\ \E bars \in Histories, has_talib \in BOOLEAN :
         pl = [pc |-> "called", has_talib |-> has_talib, bars |-> bars,
               results |-> <<>>, r1_values |-> <<>>, k |-> 0, order |-> <<>>]

\* pipeline.cpp:15-22: the empty-input return, or the pre-sized results
PlCall ==
    /\ pl.pc = "called"
    /\ pl' = IF Len(pl.bars) = 0
             THEN [pl EXCEPT !.pc = "returned"]
             ELSE [pl EXCEPT !.pc = "stage", !.results = InitResults(pl.bars)]
    /\ UNCHANGED <<mn, running, ohlcv, computed_features, inbox, to_deliver, published, sw, ls, cft, ta_lib, rw, ut>>

\* pipeline.cpp:26-53: the next calculator call; the first one also fills
\* r1_values (returns.cpp:13, 35)
PlStage ==
    /\ pl.pc = "stage"
    /\ pl.k < Len(StageNames)
    /\ pl' = [pl EXCEPT
                !.k = @ + 1,
                !.order = Append(@, StageNames[pl.k + 1]),
                !.results = RunStage(pl.k + 1, pl.bars, pl.results, pl.r1_values,
                                     pl.has_talib, TRUE),
                !.r1_values = IF pl.k + 1 = 1 THEN ReturnCalculator_r1(pl.bars) ELSE @]
    /\ UNCHANGED <<mn, running, ohlcv, computed_features, inbox, to_deliver, published, sw, ls, cft, ta_lib, rw, ut>>

\* pipeline.cpp:55-56
PlReturn ==
    /\ pl.pc = "stage"
    /\ pl.k = Len(StageNames)
    /\ pl' = [pl EXCEPT !.pc = "returned"]
    /\ UNCHANGED <<mn, running, ohlcv, computed_features, inbox, to_deliver, published, sw, ls, cft, ta_lib, rw, ut>>

NextPipeline ==
    \/ PlCall
    \/ PlStage
    \/ PlReturn

SpecPipeline == InitPipeline /\ [][NextPipeline]_vars

(***************************************************************************)
(* The rolling primitives on their own: one RollingStats, one RollingSum   *)
(* and one RollingSlope, initialised with the same window and given the    *)
(* same pushes.                                                            *)
(***************************************************************************)
PushValues == {NaN} \cup {Num(v) : v \in 0..MaxValue}

\* The span the EmaState is initialised with: 1, 3, 7, ..., for which alpha
\* is the power of two 1, 1/2, 1/4, ... and the update is exact in doubles.
EmaSpan(w) == 2^w - 1

InitRolling ==
    /\ mn = [pc |-> "unit", mode |-> "none", db_healthy |-> "unknown"]
    /\ running = TRUE
    /\ ohlcv = [p \in Pairs |-> 0]
    /\ computed_features = [id \in {} |-> EarlierRow(0, "")]
    /\ inbox = <<>>
    /\ to_deliver = 0
    /\ published = <<>>
    /\ sw = IdleSw
    /\ ls = IdleLs
    /\ cft = [c \in Ctx |-> IdleCft]
    /\ ta_lib = "down"
    /\ pl = IdlePl
    /\ ut = IdleUt
    /\ \E w \in 1..MaxWindow :
         rw = [pc |-> "run", stats |-> RollingStats_init(w), rsum |-> RollingSum_init(w),
               slope |-> RollingSlope_init(w), pushed |-> <<>>,
               span |-> EmaSpan(w), ema |-> EmaState_init(EmaSpan(w)), ema_ret |-> NaN]

\* push(x) on each of the three, update(x) on the EmaState
RwPush(x) ==
    /\ rw.pc = "run"
    /\ Len(rw.pushed) < MaxPushes
    /\ rw' = [rw EXCEPT !.stats  = RollingStats_push(@, x),
                        !.rsum   = RollingSum_push(@, x),
                        !.slope  = RollingSlope_push(@, x),
                        !.ema    = EmaState_update(@, x),
                        !.ema_ret = EmaState_update(rw.ema, x).value,
                        !.pushed = Append(@, x)]
    /\ UNCHANGED <<mn, running, ohlcv, computed_features, inbox, to_deliver, published, sw, ls, cft, ta_lib, pl, ut>>

NextRolling == \E x \in PushValues : RwPush(x)

SpecRolling == InitRolling /\ [][NextRolling]_vars

(***************************************************************************)
(* Feature serialization on its own: a feature map is drawn and each of    *)
(* the two serializers is applied to it.                                   *)
(***************************************************************************)
FeatureKeys == {"r1", "clv", "rsi_14"}
FeatureValues == {Num(1), Num(2), NaN, Inf, NegInf}
FeatureMaps == UNION {[K -> FeatureValues] : K \in SUBSET FeatureKeys}

UnitInit(inputs) ==
    /\ mn = [pc |-> "unit", mode |-> "none", db_healthy |-> "unknown"]
    /\ running = TRUE
    /\ ohlcv = [p \in Pairs |-> 0]
    /\ computed_features = [id \in {} |-> EarlierRow(0, "")]
    /\ inbox = <<>>
    /\ to_deliver = 0
    /\ published = <<>>
    /\ sw = IdleSw
    /\ ls = IdleLs
    /\ cft = [c \in Ctx |-> IdleCft]
    /\ ta_lib = "down"
    /\ pl = IdlePl
    /\ rw = IdleRw
    /\ \E x \in inputs : ut = [pc |-> "called", fn |-> "none", in |-> x, out |-> <<>>]

InitSerialize == UnitInit(FeatureMaps)

\* db.cpp:201: std::string features_json = build_features_json(r.features);
UtJson ==
    /\ ut.pc = "called"
    /\ ut' = [ut EXCEPT !.pc = "returned", !.fn = "build_features_json",
                        !.out = build_features_json(ut.in)]
    /\ UNCHANGED <<mn, running, ohlcv, computed_features, inbox, to_deliver, published, sw, ls, cft, ta_lib, pl, rw>>

\* data_service_client.cpp:175-181: the features map of one request row
UtFeatMap ==
    /\ ut.pc = "called"
    /\ ut' = [ut EXCEPT !.pc = "returned", !.fn = "feat_map",
                        !.out = ChunkRequest(<<[bar_id |-> 1, features |-> ut.in]>>, 1)[1].features]
    /\ UNCHANGED <<mn, running, ohlcv, computed_features, inbox, to_deliver, published, sw, ls, cft, ta_lib, pl, rw>>

NextSerialize ==
    \/ UtJson
    \/ UtFeatMap

SpecSerialize == InitSerialize /\ [][NextSerialize]_vars

(***************************************************************************)
(* Properties of compute_for_ticker.                                       *)
(***************************************************************************)
\* The bar history the store holds for an activation's pair.
StoreBars(a) == read_ohlcv_bars(ohlcv, a.ticker_id, a.timeframe)
BarIdsOf(bars) == {bars[k].id : k \in 1..Len(bars)}
\* The bars of the pair that lacked features when the store was asked.
MissingIds(a) == BarIdsOf(StoreBars(a)) \ a.store_existing
PositionOf(bars, id) == CHOOSE k \in 1..Len(bars) : bars[k].id = id

RECURSIVE Flatten(_)
Flatten(batches) ==
    IF batches = <<>> THEN <<>> ELSE Head(batches) \o Flatten(Tail(batches))

RECURSIVE SumSeq(_)
SumSeq(q) == IF q = <<>> THEN 0 ELSE Head(q) + SumSeq(Tail(q))

CeilDiv(m, w) == (m + w - 1) \div w

\* C1: one invocation hands to batch_upsert_features, over all its calls,
\* exactly the results of the bars in ids(B) \ E, each bar id once: at no
\* point has it sent an id of E, an id outside B, or an id twice, and when it
\* returns the ids it has sent are exactly ids(B) \ E.
C1_SendsExactlyMissing ==
    \A c \in Ctx :
        LET a == cft[c]
            S == Flatten(a.sent)
        IN a.pc # "none" =>
             /\ \A j \in 1..Len(S) : S[j].bar_id \in MissingIds(a)
             /\ \A j, k \in 1..Len(S) : j # k => S[j].bar_id # S[k].bar_id
             /\ a.pc = "return" => {S[j].bar_id : j \in 1..Len(S)} = MissingIds(a)

\* An invocation has returned after writing several batches for a history
\* of which some bars, but not all, already had features.
C1_Witness ==
    \E c \in Ctx :
        /\ cft[c].pc = "return"
        /\ Len(cft[c].sent) >= 2
        /\ cft[c].store_existing \cap BarIdsOf(StoreBars(cft[c])) # {}

\* C2 (as claimed): every return reports bars_skipped equal to the size of
\* the store's existing-feature id set of the pair, the return for an empty
\* bar history included.
C2_SkippedIsExistingOnEveryReturn ==
    \A c \in Ctx :
        cft[c].pc = "return" =>
            cft[c].stats.bars_skipped = Cardinality(cft[c].store_existing)

\* C3: when no bar read lacks features, the invocation returns
\* bars_computed = 0 without having run the pipeline or called
\* batch_upsert_features, and the step that takes it to its return leaves
\* computed_features as it was.
C3_NothingMissingNoWork ==
    /\ [](\A c \in Ctx :
            (cft[c].pc = "return" /\ MissingIds(cft[c]) = {}) =>
                /\ cft[c].stats.bars_computed = 0
                /\ cft[c].pipe_in = <<>>
                /\ cft[c].sent = <<>>
                /\ cft[c].counts = <<>>)
    /\ [][\A c \in Ctx :
            (cft[c].pc \in {"read_bars", "get_existing"} /\ cft'[c].pc \in {"get_existing", "return"})
                => computed_features' = computed_features]_vars

\* An invocation has returned for a history all of whose bars had features.
C3_Witness ==
    \E c \in Ctx :
        /\ cft[c].pc = "return"
        /\ StoreBars(cft[c]) # <<>>
        /\ MissingIds(cft[c]) = {}

\* C4: for m filtered results the invocation makes ceil(m / WRITE_BATCH_SIZE)
\* batch_upsert_features calls; every call but the last carries
\* WRITE_BATCH_SIZE rows and the last the remainder; the batches, in order,
\* are the filtered sequence cut into contiguous slices; and bars_computed
\* is the sum of the row counts the store reported.
C4_Batches ==
    \A c \in Ctx :
        LET a == cft[c]
            B == StoreBars(a)
            filtered == FilterMissing(Pipeline_compute(B), MissingIds(a))
            m == Len(filtered)
            n == Len(a.sent)
        IN a.pc = "return" =>
             /\ n = CeilDiv(m, WRITE_BATCH_SIZE)
             /\ \A j \in 1..(n - 1) : Len(a.sent[j]) = WRITE_BATCH_SIZE
             /\ n > 0 => Len(a.sent[n]) = m - (n - 1) * WRITE_BATCH_SIZE
             /\ Flatten(a.sent) = filtered
             /\ Len(a.counts) = n
             /\ a.stats.bars_computed = SumSeq(a.counts)

\* An invocation has returned after a full batch followed by a shorter one.
C4_Witness ==
    \E c \in Ctx :
        /\ cft[c].pc = "return"
        /\ Len(cft[c].sent) >= 2
        /\ Len(cft[c].sent[Len(cft[c].sent)]) < WRITE_BATCH_SIZE

\* C5: whenever a bar lacks features the pipeline is run once, over the whole
\* bar sequence the store returned, and every row sent for a missing bar,
\* and the row the store then holds for it, carries the features computed at
\* that bar's position in the full-history run.
C5_FullHistoryRun ==
    \A c \in Ctx :
        LET a == cft[c]
            B == StoreBars(a)
            full == Pipeline_compute(B)
            S == Flatten(a.sent)
        IN (a.pc \in {"write_loop", "return"} /\ MissingIds(a) # {}) =>
             /\ a.pipe_in = <<B>>
             /\ \A j \in 1..Len(S) :
                  /\ S[j] = full[PositionOf(B, S[j].bar_id)]
                  /\ S[j].bar_id \in DOMAIN computed_features
                  /\ computed_features[S[j].bar_id].features = FiniteOnly(S[j].features)

\* An invocation has returned having written a bar whose predecessor in the
\* history already had features.
C5_Witness ==
    \E c \in Ctx :
        LET a == cft[c]
            B == StoreBars(a)
        IN /\ a.pc = "return"
           /\ \E k \in 2..Len(B) :
                /\ B[k].id \in MissingIds(a)
                /\ B[k - 1].id \in a.store_existing
                /\ \E j \in 1..Len(a.sent) : \E x \in 1..Len(a.sent[j]) :
                     a.sent[j][x].bar_id = B[k].id

(***************************************************************************)
(* Properties of the two triggers running together.                        *)
(***************************************************************************)
\* The row one run over the pair's whole history writes for its k-th bar.
FullRunRow(tid, tf, k) ==
    [ticker_id |-> tid, timeframe |-> tf,
     features |-> FiniteOnly(Pipeline_compute(read_ohlcv_bars(ohlcv, tid, tf))[k].features),
     feature_version |-> feature_version]

\* The bars of a pair that had no features before the service started.
InitiallyMissing(tid, tf) ==
    {id \in PairIds(tid, tf) :
        /\ id \in BarIdsOf(read_ohlcv_bars(ohlcv, tid, tf))
        /\ ~(id \in DOMAIN computed_features /\ computed_features[id] = EarlierRow(tid, tf))}

BothReturnedSamePair ==
    /\ cft["sweep"].pc = "return"
    /\ cft["listener"].pc = "return"
    /\ cft["sweep"].ticker_id = cft["listener"].ticker_id
    /\ cft["sweep"].timeframe = cft["listener"].timeframe

\* C6: with the sweep and the listener computing the same pair concurrently,
\* at every moment each bar of the history has at most the row an earlier
\* run left or the row a single full-history run writes, and once both
\* invocations have returned every bar of the history has such a row: the
\* ones that had features keep them, the others hold the single-run values.
C6_ConcurrentSamePair ==
    /\ \A p \in Pairs :
         LET B == read_ohlcv_bars(ohlcv, p[1], p[2])
         IN \A k \in 1..Len(B) :
              B[k].id \in DOMAIN computed_features =>
                  \/ computed_features[B[k].id] = EarlierRow(p[1], p[2])
                  \/ computed_features[B[k].id] = FullRunRow(p[1], p[2], k)
    /\ BothReturnedSamePair =>
         LET a == cft["sweep"]
             B == StoreBars(a)
         IN \A k \in 1..Len(B) :
              /\ B[k].id \in DOMAIN computed_features
              /\ B[k].id \in InitiallyMissing(a.ticker_id, a.timeframe) =>
                    computed_features[B[k].id] = FullRunRow(a.ticker_id, a.timeframe, k)

\* Both invocations have returned for the same pair and together report more
\* computed bars than were missing.
C6_Witness ==
    /\ BothReturnedSamePair
    /\ InitiallyMissing(cft["sweep"].ticker_id, cft["sweep"].timeframe) # {}
    /\ cft["sweep"].stats.bars_computed + cft["listener"].stats.bars_computed
         > Cardinality(InitiallyMissing(cft["sweep"].ticker_id, cft["sweep"].timeframe))

(***************************************************************************)
(* Properties of handle_compute_request.                                   *)
(***************************************************************************)
EventsOfType(t) == {j \in 1..Len(published) : published[j].event_type = t}

\* The lookup of the request being handled returned the not-found sentinel.
NotFound == ls.msg # NoMsg /\ ls.msg # Malformed /\ get_ticker(ls.msg.symbol).id = 0
Found == ls.msg # NoMsg /\ ls.msg # Malformed /\ get_ticker(ls.msg.symbol).id # 0

\* C7: for a request whose symbol is not found, the handler issues exactly
\* one indicator_compute_failed event carrying the request's symbol and
\* correlation_id and no completion event, never enters compute_for_ticker,
\* and no step of the handling changes computed_features.
C7_NotFoundFails ==
    /\ [](NotFound =>
            /\ ls.calls = 0
            /\ cft["listener"] = IdleCft
            /\ EventsOfType("indicator_compute_complete") = {}
            /\ ls.pc \in {"handler", "lookup", "pub_failed"} => published = <<>>
            /\ (ls.pc = "handled" /\ ls.outcome = "ok") =>
                 /\ Len(published) = 1
                 /\ published[1].event_type = "indicator_compute_failed"
                 /\ published[1].payload.symbol = ls.msg.symbol
                 /\ published[1].correlation_id = ls.msg.correlation_id)
    /\ [][NotFound => computed_features' = computed_features]_vars

\* A request for an unknown symbol has been handled.
C7_Witness ==
    /\ NotFound
    /\ ls.pc = "handled"
    /\ ls.outcome = "ok"
    /\ ls.msg.correlation_id # Absent

\* C8: for a request whose symbol is found, the handler calls
\* compute_for_ticker once, publishes nothing while the call is running, and
\* after it has returned publishes exactly one indicator_compute_complete
\* event whose bars_computed and bars_skipped are the returned stats and
\* whose symbol, timeframe and correlation_id are the request's.
C8_FoundCompletes ==
    /\ [](Found =>
            /\ ls.pc \in {"handler", "lookup", "cft"} => published = <<>>
            /\ ls.pc = "cft" => ls.calls = 1
            /\ (ls.pc = "handled" /\ ls.outcome = "ok") =>
                 /\ ls.calls = 1
                 /\ cft["listener"] = IdleCft
                 /\ Len(published) = 1
                 /\ published[1].event_type = "indicator_compute_complete"
                 /\ published[1].payload.bars_computed = ls.stats.bars_computed
                 /\ published[1].payload.bars_skipped = ls.stats.bars_skipped
                 /\ published[1].payload.symbol = ls.msg.symbol
                 /\ published[1].payload.timeframe =
                        (IF ls.msg.timeframe = Absent THEN "5Min" ELSE ls.msg.timeframe)
                 /\ published[1].correlation_id = ls.msg.correlation_id)
    /\ [][(Found /\ Len(published') > Len(published)) =>
            /\ cft["listener"].pc = "return"
            /\ ls'.stats = cft["listener"].stats]_vars

\* A request for a known symbol has been completed with stats that tell
\* computed from skipped.
C8_Witness ==
    /\ Found
    /\ ls.pc = "handled"
    /\ ls.outcome = "ok"
    /\ ls.stats.bars_computed > 0
    /\ ls.stats.bars_skipped > 0
    /\ ls.stats.bars_computed # ls.stats.bars_skipped

(***************************************************************************)
(* Shutdown.                                                               *)
(***************************************************************************)
\* C9 (as claimed): once stop() has cleared the running flag, the sweep
\* enters compute_for_ticker for no further pair.
C9_NoPairStartedAfterStop ==
    [][~running => ~(cft["sweep"].pc = "none" /\ cft'["sweep"].pc = "read_bars")]_vars

\* The listener under the scheduling the process gives it: main and the
\* listener thread keep running; the bus and the signal are the
\* environment's.
SpecListenerFair ==
    InitListener /\ [][NextListener]_vars /\ WF_vars(MainStep) /\ WF_vars(ListenerStep)

\* C10 (as claimed): after stop(), run_listener eventually returns and the
\* process leaves its run.
C10_ListenerReturnsAfterStop ==
    (~running /\ mn.pc = "run") ~> (ls.pc \in {"returned", "threw"} /\ mn.pc # "run")

\* C11: stop() does not preempt an invocation in flight: with the running
\* flag cleared and batches still to write, the next batch write stays
\* enabled, the invocation leaves the write loop for its return only once
\* every batch has been sent, and what it returns counts all of them.
C11_StopDoesNotPreempt ==
    /\ [](\A c \in Ctx :
            (~running /\ Alive /\ cft[c].pc = "write_loop"
                /\ cft[c].i < Len(cft[c].to_write)) => ENABLED CftWriteBatch(c))
    /\ [](\A c \in Ctx :
            (~running /\ cft[c].pc = "return" /\ cft[c].to_write # <<>>) =>
                /\ Flatten(cft[c].sent) = cft[c].to_write
                /\ cft[c].stats.bars_computed = SumSeq(cft[c].counts))
    /\ [][\A c \in Ctx :
            (~running /\ cft[c].pc = "write_loop" /\ cft'[c].pc = "return") =>
                /\ cft[c].i >= Len(cft[c].to_write)
                /\ Flatten(cft[c].sent) = cft[c].to_write]_vars

\* stop() has been called while an invocation has written one batch and has
\* more to write.
C11_Witness ==
    \E c \in Ctx :
        /\ ~running
        /\ cft[c].pc = "write_loop"
        /\ Len(cft[c].sent) >= 1
        /\ cft[c].i < Len(cft[c].to_write)

\* C12: an exception raised while a message is handled (a payload that does
\* not parse, a failed lookup, a failed store read or write) is caught by the
\* handler: the listener is then back in its subscription loop, its next
\* step is the next receive, and a message waiting in the socket can be
\* received and handed to the handler.
C12_HandlerExceptionKeepsListening ==
    /\ [](ls.outcome = "exception" =>
            /\ ls.pc = "handled"
            /\ cft["listener"] = IdleCft
            /\ Alive => ENABLED LsLoop)
    /\ []((Alive /\ ls.pc = "recv" /\ inbox # <<>>) => ENABLED LsRecv)
    /\ [][(ls.outcome = "exception" /\ ls' # ls) =>
            (ls'.pc = "recv" /\ ls'.outcome = "none" /\ inbox' = inbox)]_vars

\* The handling of a message has ended in an exception thrown by a store
\* call inside compute_for_ticker, with another message waiting.
C12_Witness ==
    /\ ls.outcome = "exception"
    /\ ls.calls = 1
    /\ inbox # <<>>

\* The handling of an unparsable message has ended in an exception.
C12_WitnessMalformed ==
    /\ ls.outcome = "exception"
    /\ ls.msg = Malformed

\* The listener is between taking a message and returning from its handler.
Handling == ls.pc \in {"handler", "lookup", "pub_failed", "cft", "handled"}

\* C13: the listener handles one message at a time in arrival order: while a
\* message is being handled no other message can be taken from the socket,
\* a message is taken only when the previous handling (its
\* compute_for_ticker invocation included) has finished, the message taken
\* is the oldest one waiting, and a listener-side invocation is in flight
\* only inside the handling of the current message.
C13_OneMessageAtATime ==
    /\ [](Handling => ~ENABLED LsRecv)
    /\ [](cft["listener"].pc # "none" => (ls.pc = "cft" /\ ls.calls = 1))
    /\ [][Len(inbox') < Len(inbox) =>
            /\ ls.pc = "recv"
            /\ cft["listener"] = IdleCft
            /\ ls'.msg = Head(inbox)
            /\ inbox' = Tail(inbox)]_vars
    /\ [][ls'.msg # ls.msg => (ls.pc \in {"recv", "handled"} /\ cft["listener"] = IdleCft)]_vars

\* A second message has arrived while the first is inside its
\* compute_for_ticker invocation.
C13_Witness ==
    /\ ls.pc = "cft"
    /\ cft["listener"].pc = "write_loop"
    /\ inbox # <<>>

\* The sweep thread under the scheduling the process gives it: main and the
\* sweep keep running; the signal is the environment's.
SpecSweepFair ==
    InitSweep /\ [][NextSweep]_vars /\ WF_vars(MainStep) /\ WF_vars(SweepStep)

\* The catch of run_service_loop has just ended an iteration: a failed
\* ListTickers (no ticker list) or a failed pair (the loops not at their end).
SweepErrorCaught == sw.pc = "sleep_check" /\ sw.ti <= Len(sw.tickers)

C15_UnhealthyStoreAborts ==
    /\ [](mn.db_healthy = "no" =>
            /\ mn.pc = "exit1"
            /\ sw = IdleSw
            /\ ls = IdleLs
            /\ \A c \in Ctx : cft[c] = IdleCft
            /\ inbox = <<>>
            /\ published = <<>>)
    /\ [][mn.db_healthy = "no" => UNCHANGED vars]_vars
    /\ [][(mn.pc = "db_init" /\ mn'.pc # "db_init") =>
            UNCHANGED <<sw, ls, cft, computed_features, running>>]_vars

\* The health check has failed in a process configured to run both loops.
C15_Witness ==
    /\ mn.db_healthy = "no"
    /\ mn.mode = "both"
    /\ mn.pc = "exit1"

(***************************************************************************)
(* Properties of Pipeline::compute.                                        *)
(***************************************************************************)
\* C16: Pipeline::compute returns one result per input bar, the i-th
\* carrying the i-th bar's id; this holds after every stage; the empty input
\* returns the empty sequence with no stage run; and no stage removes a
\* feature entry that was in a bar's map before it ran.
C16_PipelineAlignment ==
    /\ [](pl.pc \in {"stage", "returned"} =>
            /\ Len(pl.bars) = 0 => (pl.pc = "returned" /\ pl.results = <<>> /\ pl.order = <<>>)
            /\ Len(pl.results) = Len(pl.bars)
            /\ \A i \in 1..Len(pl.bars) : pl.results[i].bar_id = pl.bars[i].id)
    /\ [](pl.pc = "returned" => pl.results = Pipeline_run(pl.bars, pl.has_talib, TRUE))
    /\ [][(pl.pc = "stage" /\ pl'.pc = "stage") =>
            \A i \in 1..Len(pl.bars) :
                DOMAIN pl.results[i].features \subseteq DOMAIN pl'.results[i].features]_vars

\* A call on several bars has returned from the build with the library
\* binding, whose last stage erases its temporary entry.
C16_Witness ==
    /\ pl.pc = "returned"
    /\ pl.has_talib
    /\ Len(pl.bars) >= 3
    /\ \A i \in 1..Len(pl.bars) :
         /\ "bar_range" \in DOMAIN pl.results[i].features
         /\ "typical_price" \notin DOMAIN pl.results[i].features

\* The empty input has returned.
C16_WitnessEmpty ==
    /\ pl.pc = "returned"
    /\ Len(pl.bars) = 0

\* The feature names each stage writes, in the order of the claim.
StageKeys ==
    <<{"r1", "r5"}, {"rv_15"}, {"vol1"}, {"clv"}, {"breakout_20"},
      {"is_open_window"}, {"rsi_14"}>>

\* C17: Pipeline::compute runs the stages once each in the order Returns,
\* Volatility, Volume, Intrabar, Anchor, TimeOfDay, TA-Lib: after k stages
\* exactly the features of the first k stages are present in every bar's
\* map; and the r1 series Volatility is given has one entry per bar, equal
\* to the r1 feature Returns wrote for that bar in the same call.
C17_StageOrderAndR1 ==
    /\ [](pl.pc \in {"stage", "returned"} /\ Len(pl.bars) > 0 =>
            /\ pl.order = SubSeq(<<"Returns", "Volatility", "Volume", "Intrabar",
                                  "Anchor", "TimeOfDay", "TALib">>, 1, pl.k)
            /\ pl.pc = "returned" => pl.k = 7
            /\ \A i \in 1..Len(pl.bars) : \A k \in 1..7 :
                 (StageKeys[k] \subseteq DOMAIN pl.results[i].features) <=> (k <= pl.k)
            /\ pl.k >= 1 =>
                 /\ Len(pl.r1_values) = Len(pl.bars)
                 /\ \A i \in 1..Len(pl.bars) :
                      pl.r1_values[i] = pl.results[i].features["r1"])
    /\ [][(pl.pc = "stage" /\ pl.k = 1 /\ pl'.k = 2) =>
            /\ Len(pl.r1_values) = Len(pl.bars)
            /\ \A i \in 1..Len(pl.bars) : pl.r1_values[i] = pl.results[i].features["r1"]
            /\ pl'.results = VolatilityCalculator_compute(pl.bars, pl.results, pl.r1_values)
            /\ pl'.r1_values = pl.r1_values]_vars

\* Volatility has just run on a series whose second r1 is a valid return.
C17_Witness ==
    /\ pl.pc = "stage"
    /\ pl.k = 2
    /\ Len(pl.bars) >= 2
    /\ is_valid(pl.r1_values[2])
    /\ ~is_valid(pl.r1_values[1])

\* C18: a call of Pipeline::compute returns, for the bar series it was given,
\* the result a call made alone returns, whatever the other trigger's thread
\* is doing in the meantime; so two calls on the same series return the same.
C18_PipelineDeterministic ==
    /\ \A c \in {"sweep", "listener"} :
         cft[c].pc = "ta_shutdown" =>
             cft[c].results = Pipeline_compute(PipelineInput(cft[c].bars, cft[c].missing))
    /\ (cft["sweep"].pc = "ta_shutdown" /\ cft["listener"].pc = "ta_shutdown"
          /\ cft["sweep"].bars = cft["listener"].bars)
         => cft["sweep"].results = cft["listener"].results

(***************************************************************************)
(* Properties of the rolling primitives.                                   *)
(***************************************************************************)
RECURSIVE SumOfLast(_, _)
\* The sum of the last m values of the sequence h.
SumOfLast(h, m) ==
    IF m = 0 THEN Num(0) ELSE DAdd(SumOfLast(SubSeq(h, 1, Len(h) - 1), m - 1), h[Len(h)])

\* C19: after k pushes into a RollingSum and a RollingStats of window w,
\* full() holds exactly when k >= w, the running sum is the sum of the last
\* min(k, w) pushed values, and mean() is that sum divided by min(k, w).
C19_RollingSumAndMean ==
    rw.pc = "run" =>
        LET k == Len(rw.pushed)
            w == rw.rsum.window
            m == Min(k, w)
            L == SumOfLast(rw.pushed, m)
        IN /\ RollingSum_full(rw.rsum) <=> k >= w
           /\ RollingStats_full(rw.stats) <=> k >= w
           /\ RollingSum_sum(rw.rsum) = L
           /\ rw.stats.sum = L
           /\ k >= 1 =>
                /\ RollingSum_mean(rw.rsum) = (IF is_valid(L) THEN DQuot(L[2], m) ELSE NaN)
                /\ RollingStats_mean(rw.stats) = (IF is_valid(L) THEN DQuot(L[2], m) ELSE NaN)

\* The pushed series has at least two values, all numbers, each the one
\* before plus d.
Linear(h, d) ==
    /\ Len(h) >= 2
    /\ \A i \in 1..Len(h) : is_valid(h[i])
    /\ \A i \in 2..Len(h) : h[i][2] - h[i - 1][2] = d

\* C20 as stated: slope() is NaN until w values have been pushed, and on a
\* linear series of step d it is d for every full window, whatever w is.
C20_SlopeOfLinearSeries ==
    rw.pc = "run" =>
        /\ Len(rw.pushed) < rw.slope.window => RollingSlope_slope(rw.slope) = NaN
        /\ \A d \in (-MaxValue)..MaxValue :
             (Linear(rw.pushed, d) /\ Len(rw.pushed) >= rw.slope.window)
                 => RollingSlope_slope(rw.slope) = Num(d)

\* C20, amended: slope() is NaN until w values have been pushed; for a
\* window w >= 2 it is d on a linear series of step d for every full window,
\* wrapped or not; for w = 1 it is 0 once a value has been pushed.
C20_SlopeOfLinearSeries_Amended ==
    rw.pc = "run" =>
        /\ Len(rw.pushed) < rw.slope.window => RollingSlope_slope(rw.slope) = NaN
        /\ \A d \in (-MaxValue)..MaxValue :
             (Linear(rw.pushed, d) /\ Len(rw.pushed) >= rw.slope.window
                /\ rw.slope.window >= 2)
                 => RollingSlope_slope(rw.slope) = Num(d)
        /\ (rw.slope.window = 1 /\ Len(rw.pushed) >= 1)
                 => RollingSlope_slope(rw.slope) = Num(0)

\* A window of three has wrapped around on a rising linear series and the
\* slope read is the step.
C20_Witness ==
    /\ rw.pc = "run"
    /\ rw.slope.window = 3
    /\ Len(rw.pushed) = 5
    /\ Linear(rw.pushed, 1)
    /\ rw.slope.pos = 2
    /\ RollingSlope_slope(rw.slope) = Num(1)

(***************************************************************************)
(* Properties of the calculators.                                          *)
(***************************************************************************)
\* n / (r + EPS) is within 1/100 of 1, for integers n and r >= 0.  EPS is
\* 1e-9, far below the integer step, so 100 * |n - r - EPS| <= r + EPS
\* comes down to the integer comparisons below.
NearOne(n, r) == IF n > r THEN 100 * (n - r) <= r ELSE 100 * (r - n) < r

WellFormedBar(b) ==
    /\ b.low <= Min(b.open, b.close)
    /\ Max(b.open, b.close) <= b.high

\* C21: for every bar with low <= min(open, close) <= max(open, close) <= high
\* the Intrabar stage leaves upper_wick + body_ratio + lower_wick within 0.01
\* of 1.0.
C21_WicksAndBodySumToOne ==
    (pl.pc \in {"stage", "returned"} /\ pl.k >= 4) =>
        \A i \in 1..Len(pl.bars) :
            WellFormedBar(pl.bars[i]) =>
                LET f == pl.results[i].features
                IN /\ f["upper_wick"][3] = pl.bars[i].high - pl.bars[i].low
                   /\ f["body_ratio"][3] = f["upper_wick"][3]
                   /\ f["lower_wick"][3] = f["upper_wick"][3]
                   /\ NearOne(f["upper_wick"][2] + f["body_ratio"][2] + f["lower_wick"][2],
                              f["upper_wick"][3])

\* The keys of a feature map whose value is a finite number.
FiniteKeys(features) ==
    {k \in DOMAIN features : features[k][1] # "nan" /\ features[k][1] # "inf"}

\* C22: both serializers emit exactly the finite entries of the feature map,
\* each with its value; NaN and +/-infinity entries are left out, and a map
\* that is empty or holds no finite value gives the empty object.
C22_SerializesFiniteOnly ==
    ut.pc = "returned" =>
        /\ ut.fn = "build_features_json" =>
             /\ ut.out = {<<k, ut.in[k]>> : k \in FiniteKeys(ut.in)}
             /\ FiniteKeys(ut.in) = {} => ut.out = {}
        /\ ut.fn = "feat_map" =>
             /\ DOMAIN ut.out = FiniteKeys(ut.in)
             /\ \A k \in DOMAIN ut.out : ut.out[k] = ut.in[k]

\* A map holding a finite value, a NaN and an infinity has been written as JSON.
C22_Witness ==
    /\ ut.pc = "returned"
    /\ ut.fn = "build_features_json"
    /\ DOMAIN ut.in = FeatureKeys
    /\ ut.in["r1"] = Num(1)
    /\ ut.in["clv"] = NaN
    /\ ut.in["rsi_14"] = Inf
    /\ ut.out = {<<"r1", Num(1)>>}

\* A map of non-finite values only has been turned into a request row.
C22_WitnessAllNonFinite ==
    /\ ut.pc = "returned"
    /\ ut.fn = "feat_map"
    /\ DOMAIN ut.in = FeatureKeys
    /\ FiniteKeys(ut.in) = {}
    /\ DOMAIN ut.out = {}

\* C23: in the build without the library, a returned pipeline call holds,
\* for every bar, NaN under every feature name the library-backed indicator
\* bank writes, so the bar's key set is the one of the library-backed build.
C23_FallbackCoversLibraryNames ==
    (pl.pc = "returned" /\ ~pl.has_talib) =>
        LET before == RunStages(6, pl.bars, TRUE, TRUE)
            with   == Pipeline_run(pl.bars, TRUE, TRUE)
        IN \A i \in 1..Len(pl.bars) :
             /\ \A name \in (DOMAIN with[i].features) \ (DOMAIN before[i].features) :
                  /\ name \in DOMAIN pl.results[i].features
                  /\ pl.results[i].features[name] = NaN
             /\ DOMAIN pl.results[i].features = DOMAIN with[i].features

\* C24: for every bar the TimeOfDay stage has handled, minutes-from-open is
\* within 0..390 and the three flags are 0.0 or 1.0: is_open_window is 1
\* exactly for minutes-from-open 0..29, is_close_window exactly for 331..390
\* (the last 60 values of the clamped minute), is_midday exactly for 120..240.
C24_SessionWindows ==
    (pl.pc \in {"stage", "returned"} /\ pl.k >= 6) =>
        \A i \in 1..Len(pl.bars) :
            LET f == pl.results[i].features
                m == minutes_from_open(pl.bars[i].timestamp)
                minute_of_day == (pl.bars[i].timestamp % 86400) \div 60
            IN /\ m \in 0..390
               /\ minute_of_day \in 570..960 => m = minute_of_day - 570
               /\ minute_of_day < 570 => m = 0
               /\ minute_of_day > 960 => m = 390
               /\ f["tod_sin"][2] = m
               /\ {f["is_open_window"], f["is_close_window"], f["is_midday"]}
                     \subseteq {Num(0), Num(1)}
               /\ f["is_open_window"] = Num(1) <=> m \in 0..29
               /\ f["is_close_window"] = Num(1) <=> m \in 331..390
               /\ f["is_midday"] = Num(1) <=> m \in 120..240

\* A bar stamped 15:01:59 on the day before the epoch has been handled: it
\* is in the closing window only.
C24_Witness ==
    /\ pl.pc = "stage"
    /\ pl.k = 6
    /\ Len(pl.bars) = 1
    /\ pl.bars[1].timestamp = -86400 + 60 * 901 + 59
    /\ pl.results[1].features["is_close_window"] = Num(1)
    /\ pl.results[1].features["is_open_window"] = Num(0)
    /\ pl.results[1].features["is_midday"] = Num(0)

\* A bar stamped before the open has been handled: its minute is clamped to
\* 0 and it counts as in the opening window.
C24_WitnessBeforeOpen ==
    /\ pl.pc = "returned"
    /\ Len(pl.bars) = 1
    /\ pl.bars[1].timestamp = 0
    /\ pl.results[1].features["is_open_window"] = Num(1)

(***************************************************************************)
(* Further properties of the listener and the coordinator.                 *)
(***************************************************************************)
\* C25: when the handling of a parsed request has ended, exactly one event
\* carrying the request's correlation_id has been published for it:
\* indicator_compute_complete if the handling succeeded,
\* indicator_compute_failed if it failed.
C25_OneEventPerRequest ==
    (ls.pc = "handled" /\ ls.outcome # "dropped" /\ ls.msg # Malformed) =>
        /\ Len(published) = 1
        /\ published[1].correlation_id = ls.msg.correlation_id
        /\ published[1].event_type =
              (IF ls.outcome = "ok" /\ ls.calls = 1
               THEN "indicator_compute_complete"
               ELSE "indicator_compute_failed")

\* C26: on finite pushes, zscore(x) of a finite x is NaN exactly when the
\* window is not yet full, and for a full window of any size w >= 1 it is a
\* finite value built from x, the mean and the standard deviation.
C26_ZscoreDefinedOnceFull ==
    (rw.pc = "run" /\ \A i \in 1..Len(rw.pushed) : is_valid(rw.pushed[i])) =>
        \A x \in 0..MaxValue :
            LET z == RollingStats_zscore(rw.stats, Num(x))
            IN /\ (z = NaN) <=> (Len(rw.pushed) < rw.stats.window)
               /\ Len(rw.pushed) >= rw.stats.window => z[1] = "zscore"

\* a < b for numbers kept as Num(p) or <<"quot", p, q>>
Less(a, b) == Numer(a) * Denom(b) < Numer(b) * Denom(a)

\* P of one update(x) step: the state before, the input, the state after
\* and the value returned.
EmaStep(P(_, _, _, _)) ==
    (rw.pc = "run" /\ rw'.pushed # rw.pushed) =>
        P(rw.ema, rw'.pushed[Len(rw'.pushed)], rw'.ema, rw'.ema_ret)

\* value2 = alpha * x + (1 - alpha) * value with alpha = 2 / (span + 1),
\* cleared of its denominators
IsEmaOf(value2, span, x, value) ==
    Numer(value2) * (span + 1) * Denom(value)
        = (2 * Numer(x) * Denom(value) + (span - 1) * Numer(value)) * Denom(value2)

EmaSeedsAndIgnores(e, x, e2, ret) ==
    /\ (x[1] \in {"nan", "inf"}) => (e2 = e /\ ret = e.value)
    /\ (x[1] = "num" /\ ~e.initialized) =>
          (e2.value = x /\ ret = x /\ e2.initialized /\ e2.alpha = e.alpha)
    /\ (x[1] = "num" /\ e.initialized) =>
          (ret = e2.value /\ e2.initialized /\ e2.alpha = e.alpha
             /\ IsEmaOf(e2.value, rw.span, x, e.value))

StrictlyBetween(e, x, e2, ret) ==
    (x[1] = "num" /\ e.initialized /\ x # e.value) =>
        \/ Less(e.value, e2.value) /\ Less(e2.value, x)
        \/ Less(x, e2.value) /\ Less(e2.value, e.value)

StrictlyBetweenForSpan2(e, x, e2, ret) == rw.span >= 2 => StrictlyBetween(e, x, e2, ret)

ReachesInputForSpan1(e, x, e2, ret) ==
    (rw.span = 1 /\ x[1] = "num") => e2.value = x

\* C27 as stated: the first finite input seeds the value and is returned, a
\* later finite input x sets value to alpha * x + (1 - alpha) * value, which
\* is strictly between the previous value and x when they differ, and a
\* non-finite input returns the last value and changes nothing.
C27_EmaUpdate ==
    [][EmaStep(EmaSeedsAndIgnores) /\ EmaStep(StrictlyBetween)]_vars

\* C27, amended: as stated, with the new value strictly between the previous
\* value and x for a span of at least 2 (alpha < 1); with span 1 (alpha = 1)
\* the new value is x itself.
C27_EmaUpdate_Amended ==
    [][/\ EmaStep(EmaSeedsAndIgnores)
       /\ EmaStep(StrictlyBetweenForSpan2)
       /\ EmaStep(ReachesInputForSpan1)]_vars

\* An EmaState of span 3 has been seeded, has ignored a NaN and has then
\* moved halfway towards a different input.
C27_Witness ==
    /\ rw.pc = "run"
    /\ rw.span = 3
    /\ Len(rw.pushed) = 3
    /\ rw.pushed = <<Num(1), NaN, Num(4)>>
    /\ rw.ema.value = <<"quot", 5, 2>>
    /\ rw.ema_ret = rw.ema.value

\* The sweep is inside an invocation for a pair whose previous sweep
\* invocation returned.
SecondRun ==
    /\ cft["sweep"].pc # "none"
    /\ <<cft["sweep"].ticker_id, cft["sweep"].timeframe>> \in sw.completed

\* C28 as stated: the invocation that follows a completed one for the same
\* pair finds no bar missing, makes no upsert call and returns
\* bars_computed = 0 with bars_skipped equal to the number of bars.
C28_SecondRunIsNoOp ==
    SecondRun =>
        LET a == cft["sweep"]
        IN /\ a.pc \in {"read_bars", "get_existing", "return"}
           /\ a.sent = <<>>
           /\ a.pipe_in = <<>>
           /\ a.pc = "return" =>
                /\ MissingIds(a) = {}
                /\ a.stats.bars_computed = 0
                /\ a.stats.bars_skipped = Len(StoreBars(a))

\* The feature rows of the activation's pair that belong to no bar held.
OrphanRows(a) ==
    {id \in DOMAIN computed_features :
        /\ computed_features[id].ticker_id = a.ticker_id
        /\ computed_features[id].timeframe = a.timeframe
        /\ id \notin BarIdsOf(StoreBars(a))}

\* C28, amended: the invocation that follows a completed one for the same
\* pair finds no bar missing, runs no pipeline, makes no upsert call and
\* returns bars_computed = 0; bars_skipped is 0 for a pair without bars and
\* otherwise the number of feature rows the store holds for the pair, which
\* is the number of bars when none of the rows belongs to a bar no longer held.
C28_SecondRunIsNoOp_Amended ==
    /\ [](SecondRun =>
            LET a == cft["sweep"]
                n == Len(StoreBars(a))
            IN /\ a.pc \in {"read_bars", "get_existing", "return"}
               /\ a.sent = <<>>
               /\ a.pipe_in = <<>>
               /\ a.pc = "return" =>
                    /\ MissingIds(a) = {}
                    /\ a.stats.bars_computed = 0
                    /\ a.stats.bars_skipped =
                          (IF n = 0 THEN 0 ELSE n + Cardinality(OrphanRows(a)))
                    /\ OrphanRows(a) = {} => a.stats.bars_skipped = n)
    /\ [][SecondRun => computed_features' = computed_features]_vars

\* The second invocation for a pair has returned, the first having written
\* rows for bars that lacked them.
C28_Witness ==
    /\ SecondRun
    /\ cft["sweep"].pc = "return"
    /\ Len(StoreBars(cft["sweep"])) >= 2
    /\ cft["sweep"].stats.bars_skipped = Len(StoreBars(cft["sweep"]))
    /\ \E id \in BarIdsOf(StoreBars(cft["sweep"])) :
         computed_features[id] # EarlierRow(cft["sweep"].ticker_id, cft["sweep"].timeframe)

\* The pairs that come before <<tid, tf>> in the tickers x timeframes
\* enumeration of an iteration.
PairsBefore(tid, tf) ==
    {q \in Pairs :
        \E i, j \in 1..Len(TickerTable) : \E x, y \in 1..Len(Timeframes) :
            /\ TickerTable[i].id = q[1] /\ Timeframes[x] = q[2]
            /\ TickerTable[j].id = tid /\ Timeframes[y] = tf
            /\ (i < j \/ (i = j /\ x < y))}

\* C29: an exception thrown for a pair ends the sweep iteration: no pair is
\* processed before the next iteration has fetched the ticker list, and a
\* pair is processed only when the latest invocation of every pair before it
\* in the enumeration has returned, so a pair that throws on every attempt
\* keeps the later pairs from being processed.
C29_FailedPairBlocksLaterPairs ==
    /\ [][(cft["sweep"].pc \notin {"none", "return"} /\ cft'["sweep"].pc = "none") =>
            /\ sw'.pc = "sleep_check"
            /\ <<cft["sweep"].ticker_id, cft["sweep"].timeframe>> \notin sw'.completed]_vars
    /\ [](sw.pc \in {"sleep_check", "sleeping", "while", "get_tickers", "done"} =>
            cft["sweep"].pc = "none")
    /\ [][(cft["sweep"].pc = "none" /\ cft'["sweep"].pc # "none") =>
            /\ sw.pc = "for"
            /\ PairsBefore(cft'["sweep"].ticker_id, cft'["sweep"].timeframe)
                  \subseteq sw.completed]_vars

\* An iteration has just been ended by the first pair throwing after it had
\* written rows, while the second pair still has bars without features and
\* no invocation for it has returned.
C29_Witness ==
    /\ sw.pc = "sleep_check"
    /\ sw.ti = 1
    /\ sw.fi = 1
    /\ sw.completed = {}
    /\ \E id \in PairIds(1, Timeframes[1]) :
         /\ id \in DOMAIN computed_features
         /\ computed_features[id] # EarlierRow(1, Timeframes[1])
    /\ \E k \in 1..ohlcv[<<1, Timeframes[2]>>] :
         BarId(1, Timeframes[2], k) \notin DOMAIN computed_features

\* The step is an upsert call of activation c failing with an exception.
UpsertThrows(c) == cft[c].pc = "write_loop" /\ cft'[c].pc = "none"

\* C30: when an upsert batch of an invocation fails with an exception, the
\* rows of the batches before it stay in the store, as every row does; the
\* invocation ends without stats and, in the listener, without any event for
\* the request; and every batch an invocation sends holds only bars of the
\* pair that have no row in the store when it is sent.
C30_PartialWriteIsKept ==
    /\ [][\A c \in Ctx : UpsertThrows(c) =>
            LET S == Flatten(cft[c].sent)
            IN /\ computed_features' = computed_features
               /\ \A j \in 1..Len(S) :
                    /\ S[j].bar_id \in DOMAIN computed_features'
                    /\ computed_features'[S[j].bar_id].feature_version = feature_version
               /\ cft'[c] = IdleCft
               /\ c = "listener" =>
                    /\ ls'.pc = "handled"
                    /\ ls'.outcome = "exception"
                    /\ published' = <<>>]_vars
    /\ [][DOMAIN computed_features \subseteq DOMAIN computed_features']_vars
    /\ [][\A c \in Ctx :
            Len(cft'[c].sent) > Len(cft[c].sent) =>
                LET batch == cft'[c].sent[Len(cft'[c].sent)]
                IN \A x \in 1..Len(batch) :
                     /\ batch[x].bar_id \notin DOMAIN computed_features
                     /\ batch[x].bar_id \in BarIdsOf(StoreBars(cft[c]))]_vars

\* A listener-side invocation has sent a batch for a pair of which an
\* earlier invocation, ended by a failed batch, had already written a bar:
\* that bar's row is in the store and was not sent again.
C30_Witness ==
    LET a == cft["listener"]
    IN /\ a.pc = "write_loop"
       /\ Len(a.sent) >= 1
       /\ \E id \in a.store_existing :
            /\ computed_features[id].feature_version = feature_version
            /\ \A j \in 1..Len(Flatten(a.sent)) : Flatten(a.sent)[j].bar_id # id

====
